---- MODULE Spec2Model ----
(***************************************************************************)
(* A model of the mizu-router Router class (src/unnamed/part_000, the same *)
(* code as src/packages/mizu-router/src/index.ts lines 307-524).           *)
(*                                                                         *)
(* Strings are sequences of one-character strings, so that splitting,      *)
(* prefix stripping and joining are computed the way the code computes     *)
(* them.  A trie is a function from node paths (the sequence of edges from *)
(* the root) to node records; the children of a node are the node paths    *)
(* one edge longer.                                                        *)
(***************************************************************************)
EXTENDS Integers, Sequences, FiniteSets, TLC

VARIABLES
    trees,        \* router -> (method key -> trie)          this.trees
    middlewares,  \* router -> sequence of global middleware this.middlewares
    reqs,         \* the handle() calls made so far, each with its context,
                  \* matched route, dispatch cursor and dispatch frames
    calls,        \* history of the registration API calls made so far
    stores        \* the store objects passed to handle(): the n-th is the
                  \* set of property names written on it so far

vars == <<trees, middlewares, reqs, calls, stores>>

(***************************************************************************)
(* Strings                                                                 *)
(***************************************************************************)
Slash == "/"

\* String.prototype.startsWith
startsWith(s, prefix) ==
    /\ Len(prefix) <= Len(s)
    /\ SubSeq(s, 1, Len(prefix)) = prefix

\* String.prototype.endsWith
endsWith(s, suffix) ==
    /\ Len(suffix) <= Len(s)
    /\ SubSeq(s, Len(s) - Len(suffix) + 1, Len(s)) = suffix

\* String.prototype.slice(n)
slice(s, n) == SubSeq(s, n + 1, Len(s))

\* path.replace(/^\//, ""): one leading separator is removed
stripLeadingSlash(path) ==
    IF Len(path) > 0 /\ path[1] = Slash THEN Tail(path) ELSE path

\* String.prototype.split("/"): the pieces between separators, empty ones kept
RECURSIVE splitOn(_, _, _, _)
splitOn(s, i, cur, acc) ==
    IF i > Len(s) THEN Append(acc, cur)
    ELSE IF s[i] = Slash THEN splitOn(s, i + 1, <<>>, Append(acc, cur))
    ELSE splitOn(s, i + 1, Append(cur, s[i]), acc)

\* A split that keeps the empty pieces
splitPathKeepsEmpty(path) == splitOn(stripLeadingSlash(path), 1, <<>>, <<>>)

\* path.replace(/^\//, "").split("/").filter(Boolean)
splitPath(path) ==
    SelectSeq(splitOn(stripLeadingSlash(path), 1, <<>>, <<>>),
              LAMBDA seg : seg # <<>>)

\* Array.prototype.join("/")
RECURSIVE join(_)
join(segs) ==
    IF segs = <<>> THEN <<>>
    ELSE IF Len(segs) = 1 THEN segs[1]
    ELSE segs[1] \o <<Slash>> \o join(Tail(segs))

\* Array.prototype.slice(i) for a 0-based i
sliceFrom(segs, i) == SubSeq(segs, i + 1, Len(segs))

(***************************************************************************)
(* Values: responses, errors, functions, routes, trie nodes                *)
(***************************************************************************)
Void == [kind |-> "void", status |-> 0, body |-> ""]

Response(status, body) == [kind |-> "response", status |-> status, body |-> body]

Error(msg) == [kind |-> "error", status |-> 0, body |-> msg]

isResponse(v) == v.kind = "response"

\* A not-found response built without its status option
NotFoundWithoutStatus == Response(200, "Not Found")

\* new Response("Not Found", { status: 404 })
NotFoundResponse == Response(404, "Not Found")

\* new Response("Internal Server Error", { status: 500 })
\* A 500 body sent with the default status
InternalErrorWithoutStatus == Response(200, "Internal Server Error")

InternalErrorResponse == Response(500, "Internal Server Error")

\* new Response("OK")
OkResponse == Response(200, "OK")

\* new Error("next() called multiple times")
NextTwiceError == Error("next() called multiple times")

NoRouter == "none"

\* The env object a caller passes to handle
Env == "env"

\* A middleware or handler passed to the router: its identity and its body,
\* the sequence of statements it executes.  Statements:
\*   "call"     p = next()           (the continuation is invoked, not awaited)
\*   "await"    v = await p
\*   "retv"     return v
\*   "resp"     return new Response(name)
\*   "void"     return
\*   "throw"    throw new Error(name)
\* and, for the handler that route() builds,
\*   "delegate" p = router.handle(new Request(newUrl, ctx.req), ctx.env, ctx.store)
\*   "retsub"   return p
Fn(name, body) == [name |-> name, body |-> body, prefix |-> <<>>, child |-> NoRouter]

NoFn == Fn("none", <<>>)

NoRoute == [handler |-> NoFn, middlewares |-> <<>>]

NoName == <<"undefined">>

\* { children: new Map() }
createNode == [paramName |-> NoName, route |-> NoRoute]

Root == <<>>

LitEdge(seg) == <<"static", seg>>
ParamEdge == <<"param", <<>>>>
WildEdge == <<"wildcard", <<>>>>

Star == <<"*">>

EmptyMap == [k \in {} |-> <<>>]

\* params: {}
EmptyParams == EmptyMap

\* The one key of a plain object that is no data property: assigning to it
\* goes to the prototype setter, which ignores a string
ProtoKey == <<"_", "_", "p", "r", "o", "t", "o", "_", "_">>

\* params[k] = v on the plain object `params`, v a string
Put(params, k, v) ==
    IF k = ProtoKey THEN params
    ELSE [x \in (DOMAIN params) \cup {k} |-> IF x = k THEN v ELSE params[x]]

\* map.set(k, v) / f[k] = v on a function
Set(f, k, v) == [x \in (DOMAIN f) \cup {k} |-> IF x = k THEN v ELSE f[x]]

(***************************************************************************)
(* Registration: use, register, get/post/..., route                        *)
(***************************************************************************)
\* The catch-all method key under which route() registers
StarMethod == "*"

\* A registration that puts a new node in the place of an existing child
ensureChildReplaces(T, child, fresh) == Set(T, child, fresh)

\* node.wildcard = node.wildcard || { children: new Map() }
\* if (!node.param) node.param = { children: new Map(), paramName }
\* if (!node.children.has(segment)) node.children.set(segment, {...})
ensureChild(T, child, fresh) ==
    IF child \in DOMAIN T THEN T ELSE Set(T, child, fresh)

\* A loop that goes on below the wildcard child with the segments after it
RECURSIVE registerWalkPastWildcard(_, _, _, _)
registerWalkPastWildcard(T, node, segments, k) ==
    IF k > Len(segments) THEN [tree |-> T, node |-> node]
    ELSE LET segment == segments[k]
             child == Append(node, IF segment = Star THEN WildEdge
                                   ELSE IF startsWith(segment, <<":">>) THEN ParamEdge
                                   ELSE LitEdge(segment))
             fresh == IF segment # Star /\ startsWith(segment, <<":">>)
                      THEN [createNode EXCEPT !.paramName = Tail(segment)]
                      ELSE createNode
         IN registerWalkPastWildcard(
                IF child \in DOMAIN T THEN T ELSE Set(T, child, fresh),
                child, segments, k + 1)

\* The loop of register: walks the pattern's segments from `node`, creating
\* the missing children; yields the trie and the node the pattern ends at.
RECURSIVE registerWalk(_, _, _, _)
registerWalk(T, node, segments, k) ==
    IF k > Len(segments) THEN [tree |-> T, node |-> node]
    ELSE LET segment == segments[k] IN
        IF segment = Star
        THEN LET child == Append(node, WildEdge) IN
             [tree |-> ensureChild(T, child, createNode), node |-> child]
        ELSE IF startsWith(segment, <<":">>)
        THEN LET paramName == slice(segment, 1)
                 child == Append(node, ParamEdge) IN
             registerWalk(ensureChild(T, child,
                              [createNode EXCEPT !.paramName = paramName]),
                          child, segments, k + 1)
        ELSE LET child == Append(node, LitEdge(segment)) IN
             registerWalk(ensureChild(T, child, createNode),
                          child, segments, k + 1)

\* A route that keeps only its own middleware
routeMiddlewaresOwnOnly(globals, mws) == mws

\* A route whose own middleware come before the global ones
routeMiddlewaresOwnFirst(globals, mws) == mws \o globals

\* middlewares: [...this.middlewares, ...middlewares]
routeMiddlewares(globals, mws) == globals \o mws

\* A registration that leaves a route already bound at the node in place
registerKeepsRoute(TT, globals, method, path, handler, mws) ==
    LET segments == splitPath(path)
        T0 == IF method \in DOMAIN TT THEN TT[method]
              ELSE [n \in {Root} |-> createNode]
        w == registerWalk(T0, Root, segments, 1)
        route == [handler |-> handler, middlewares |-> globals \o mws]
    IN Set(TT, method,
           IF w.tree[w.node].route # NoRoute THEN w.tree
           ELSE [w.tree EXCEPT ![w.node].route = route])

\* register(method, path, handler, middlewares) on the trees of one router
register(TT, globals, method, path, handler, mws) ==
    LET segments == splitPath(path)
        T0 == IF method \in DOMAIN TT THEN TT[method]
              ELSE [n \in {Root} |-> createNode]
        w == registerWalk(T0, Root, segments, 1)
        route == [handler |-> handler,
                  middlewares |-> routeMiddlewares(globals, mws)]
    IN Set(TT, method, [w.tree EXCEPT ![w.node].route = route])

\* prefix.endsWith("/") ? `${prefix}*` : `${prefix}/*`
mountPattern(prefix) ==
    IF endsWith(prefix, <<Slash>>) THEN prefix \o Star
    ELSE prefix \o <<Slash>> \o Star

\* The handler route() builds for a mounted router
mountHandler(prefix, child) ==
    [name |-> "mount", body |-> <<"delegate", "retsub">>,
     prefix |-> prefix, child |-> child]

(***************************************************************************)
(* Matching: matchRoute and the lookup of handle                           *)
(***************************************************************************)
\* A walk that tries the param child before the static children
branchParamFirst(T, current, segment) ==
    IF Append(current, ParamEdge) \in DOMAIN T THEN "param"
    ELSE IF Append(current, LitEdge(segment)) \in DOMAIN T THEN "static"
    ELSE IF Append(current, WildEdge) \in DOMAIN T THEN "wildcard"
    ELSE "none"

\* A walk that tries the wildcard child before the param child
branchWildcardFirst(T, current, segment) ==
    IF Append(current, LitEdge(segment)) \in DOMAIN T THEN "static"
    ELSE IF Append(current, WildEdge) \in DOMAIN T THEN "wildcard"
    ELSE IF Append(current, ParamEdge) \in DOMAIN T THEN "param"
    ELSE "none"

\* The branch the walk takes at node `current` for `segment`:
\* a static child first, then the param child, then the wildcard child.
branch(T, current, segment) ==
    IF Append(current, LitEdge(segment)) \in DOMAIN T THEN "static"
    ELSE IF Append(current, ParamEdge) \in DOMAIN T THEN "param"
    ELSE IF Append(current, WildEdge) \in DOMAIN T THEN "wildcard"
    ELSE "none"

\* params["*"] = segments.slice(i).join("/")
wildcardCapture(segments, i) == join(sliceFrom(segments, i))

NoMatch == [found |-> FALSE, route |-> NoRoute, params |-> EmptyParams,
            node |-> Root]

\* A walk that ends on a node without a route and settles for the root's
matchEndFallsBackToRoot(T, current, params) ==
    IF T[current].route # NoRoute
    THEN [found |-> TRUE, route |-> T[current].route, params |-> params,
          node |-> current]
    ELSE IF T[Root].route # NoRoute
    THEN [found |-> TRUE, route |-> T[Root].route, params |-> params,
          node |-> Root]
    ELSE NoMatch

\* if (current?.route) { ctx.params = params; return current.route }
matchEnd(T, current, params) ==
    IF T[current].route # NoRoute
    THEN [found |-> TRUE, route |-> T[current].route, params |-> params,
          node |-> current]
    ELSE NoMatch

\* A walk that goes back to the next sibling when a branch leads to no route
RECURSIVE matchWalkBacktracks(_, _, _, _, _)
matchWalkBacktracks(T, segments, i, current, params) ==
    IF i >= Len(segments) THEN matchEnd(T, current, params)
    ELSE LET segment == segments[i + 1]
             viaStatic ==
                 IF Append(current, LitEdge(segment)) \in DOMAIN T
                 THEN matchWalkBacktracks(T, segments, i + 1,
                          Append(current, LitEdge(segment)), params)
                 ELSE NoMatch
             viaParam ==
                 IF Append(current, ParamEdge) \in DOMAIN T
                 THEN matchWalkBacktracks(T, segments, i + 1,
                          Append(current, ParamEdge),
                          Put(params, T[Append(current, ParamEdge)].paramName, segment))
                 ELSE NoMatch
             viaWildcard ==
                 IF Append(current, WildEdge) \in DOMAIN T
                 THEN matchEnd(T, Append(current, WildEdge),
                               Put(params, Star, wildcardCapture(segments, i)))
                 ELSE NoMatch
         IN IF viaStatic.found THEN viaStatic
            ELSE IF viaParam.found THEN viaParam
            ELSE viaWildcard

\* The loop of matchRoute; i is the 0-based index of the next segment.
RECURSIVE matchWalk(_, _, _, _, _)
matchWalk(T, segments, i, current, params) ==
    IF i >= Len(segments) THEN matchEnd(T, current, params)
    ELSE LET segment == segments[i + 1]
             b == branch(T, current, segment) IN
        IF b = "static"
        THEN matchWalk(T, segments, i + 1,
                       Append(current, LitEdge(segment)), params)
        ELSE IF b = "param"
        THEN LET child == Append(current, ParamEdge) IN
             matchWalk(T, segments, i + 1, child,
                       Put(params, T[child].paramName, segment))
        ELSE IF b = "wildcard"
        THEN matchEnd(T, Append(current, WildEdge),
                      Put(params, Star, wildcardCapture(segments, i)))
        ELSE NoMatch

\* matchRoute(this.trees.get(method))
matchRoute(TT, method, segments) ==
    IF method \notin DOMAIN TT THEN NoMatch
    ELSE matchWalk(TT[method], segments, 0, Root, EmptyParams)

\* A lookup that consults the catch-all tree before the tree of the method
lookupStarFirst(TT, method, segments) ==
    LET s == matchRoute(TT, StarMethod, segments) IN
    IF s.found THEN [s EXCEPT !.node = <<StarMethod, s.node>>]
    ELSE LET m == matchRoute(TT, method, segments) IN
         [m EXCEPT !.node = <<method, m.node>>]

\* matchRoute(this.trees.get(method)) || matchRoute(this.trees.get("*"))
lookup(TT, method, segments) ==
    LET m == matchRoute(TT, method, segments) IN
    IF m.found THEN [m EXCEPT !.node = <<method, m.node>>]
    ELSE LET s == matchRoute(TT, StarMethod, segments) IN
         [s EXCEPT !.node = <<StarMethod, s.node>>]

(***************************************************************************)
(* Serving: handle and dispatch                                            *)
(*                                                                         *)
(* A request record is one call of handle: its context (params), the route *)
(* it matched, the cursor `index`, and one frame per call of dispatch.  A  *)
(* frame is the call dispatch(pos) together with the function it invoked:  *)
(* pc is the next statement of that function, p the promise of its last    *)
(* next() call (a frame of the same request; for the mount handler, the    *)
(* request of the child router), v the last awaited value, and st/val how  *)
(* the promise of dispatch(pos) settled.  log lists, in order, the         *)
(* positions and functions that were invoked.  env and store are what the  *)
(* context holds: store is the identity of a store object, seen what a     *)
(* function found on the store when it read it.                            *)
(***************************************************************************)
\* A guard that lets the position already reached be dispatched again
guardFailsBelowOnly(i, index) == i < index

\* A guard on a cursor that all the requests in flight share
guardFailsShared(i, index) ==
    i <= index \/ \E k \in DOMAIN reqs : i <= reqs[k].index

\* if (i <= index) throw new Error("next() called multiple times")
guardFails(i, index) == i <= index

\* A dispatcher that starts behind the first middleware of the chain
middlewareAtSkipsFirst(route, i) ==
    IF i + 2 <= Len(route.middlewares) THEN route.middlewares[i + 2] ELSE NoFn

\* const middleware = route.middlewares[i]  (undefined past the end)
middlewareAt(route, i) ==
    IF i + 1 <= Len(route.middlewares) THEN route.middlewares[i + 1] ELSE NoFn

newFrame(i, fn, isHandler) ==
    [pos |-> i, fn |-> fn, handler |-> isHandler, pc |-> 1, p |-> 0,
     v |-> Void, seen |-> {}, st |-> "run", val |-> Void]

settledFrame(i, st, val) ==
    [pos |-> i, fn |-> NoFn, handler |-> FALSE, pc |-> 1, p |-> 0,
     v |-> Void, seen |-> {}, st |-> st, val |-> val]

\* A dispatch that looks the route up again each time it is called
dispatchRereadsRoute(q, i) ==
    IF guardFails(i, q.index)
    THEN [q EXCEPT !.frames = Append(@, settledFrame(i, "err", NextTwiceError))]
    ELSE LET route == lookup(trees[q.router], q.method, splitPath(q.path)).route
             middleware == middlewareAt(route, i)
             fn == IF middleware = NoFn THEN route.handler ELSE middleware
         IN [q EXCEPT !.index = i,
                      !.frames = Append(@, newFrame(i, fn, middleware = NoFn)),
                      !.log = Append(@, <<i, fn.name>>)]

\* dispatch(i), up to the invocation of the middleware or the handler
dispatch(q, i) ==
    IF guardFails(i, q.index)
    THEN [q EXCEPT !.frames = Append(@, settledFrame(i, "err", NextTwiceError))]
    ELSE LET middleware == middlewareAt(q.route, i)
             fn == IF middleware = NoFn THEN q.route.handler ELSE middleware
         IN [q EXCEPT !.index = i,
                      !.frames = Append(@, newFrame(i, fn, middleware = NoFn)),
                      !.log = Append(@, <<i, fn.name>>)]

\* A dispatch that awaits the middleware without returning its result
dispatchSettleDropsResult(fr, how, x) ==
    IF fr.handler
    THEN [fr EXCEPT !.st = IF how = "return" THEN "ok" ELSE "err", !.val = x]
    ELSE IF how = "return"
    THEN [fr EXCEPT !.st = "ok", !.val = Void]
    ELSE [fr EXCEPT !.st = "ok", !.val = InternalErrorResponse]

\* A dispatch whose promise stays pending when the middleware throws
dispatchSettleHangsOnThrow(fr, how, x) ==
    IF fr.handler
    THEN [fr EXCEPT !.st = IF how = "return" THEN "ok" ELSE "err", !.val = x]
    ELSE IF how = "return"
    THEN [fr EXCEPT !.st = "ok", !.val = x]
    ELSE [fr EXCEPT !.fn = Fn(fr.fn.name, <<"pending">>), !.pc = 1]

\* A dispatch that invokes the middleware outside any try/catch
dispatchSettleNoCatch(fr, how, x) ==
    [fr EXCEPT !.st = IF how = "return" THEN "ok" ELSE "err", !.val = x]

\* How the promise of dispatch(i) settles when the function it invoked
\* returns x (how = "return") or throws x (how = "throw"): the handler's
\* promise is returned as it is; a middleware is awaited inside try/catch.
dispatchSettle(fr, how, x) ==
    IF fr.handler
    THEN [fr EXCEPT !.st = IF how = "return" THEN "ok" ELSE "err", !.val = x]
    ELSE IF how = "return"
    THEN [fr EXCEPT !.st = "ok", !.val = x]
    ELSE [fr EXCEPT !.st = "ok", !.val = InternalErrorResponse]

\* A handle that runs the global middleware in front of its 404 response
newRequestGlobalsAlways(TT, router, method, path, env, store, parent, pframe) ==
    LET m == lookup(TT, method, splitPath(path))
        q == [router |-> router, method |-> method, path |-> path,
              env |-> env, store |-> store,
              parent |-> parent, pframe |-> pframe,
              params |-> m.params, route |-> m.route,
              index |-> -1, frames |-> <<>>, log |-> <<>>,
              status |-> "run", response |-> Void]
    IN IF ~m.found
       THEN IF middlewares[router] = <<>>
            THEN [q EXCEPT !.status = "done", !.response = NotFoundResponse]
            ELSE dispatch([q EXCEPT !.route.middlewares = middlewares[router]], 0)
       ELSE dispatch(q, 0)

\* handle, up to its first await: the context, the lookup, the 404 response,
\* and dispatch(0)
newRequest(TT, router, method, path, env, store, parent, pframe) ==
    LET m == lookup(TT, method, splitPath(path))
        q == [router |-> router, method |-> method, path |-> path,
              env |-> env, store |-> store,
              parent |-> parent, pframe |-> pframe,
              params |-> m.params, route |-> m.route,
              index |-> -1, frames |-> <<>>, log |-> <<>>,
              status |-> "run", response |-> Void]
    IN IF ~m.found
       THEN [q EXCEPT !.status = "done", !.response = NotFoundResponse]
       ELSE dispatch(q, 0)

\* A handle that returns what dispatch(0) yielded, absent or not
handleResultAbsent(q) ==
    LET d == q.frames[1] IN
    IF d.st = "err" THEN [q EXCEPT !.status = "rejected", !.response = d.val]
    ELSE [q EXCEPT !.status = "done", !.response = d.val]

\* return (await dispatch(0)) || new Response("OK")
handleResult(q) ==
    LET d == q.frames[1] IN
    IF d.st = "err" THEN [q EXCEPT !.status = "rejected", !.response = d.val]
    ELSE [q EXCEPT !.status = "done",
                   !.response = IF isResponse(d.val) THEN d.val ELSE OkResponse]

\* A mount that hands the child a copy of the store
delegateStoreCopy(S, id) == [stores |-> Append(S, S[id]), id |-> Len(S) + 1]

\* router.handle(..., ctx.env, ctx.store): the child is handed the store
\* object itself
delegateStore(S, id) == [stores |-> S, id |-> id]

\* A mount that hands the child the path as it came
subPathKeepsPrefix(pathname, prefix) == pathname

\* url.pathname.startsWith(prefix) ? url.pathname.slice(prefix.length) || "/" : "/"
subPath(pathname, prefix) ==
    IF startsWith(pathname, prefix)
    THEN (IF slice(pathname, Len(prefix)) = <<>> THEN <<Slash>>
          ELSE slice(pathname, Len(prefix)))
    ELSE <<Slash>>

\* The spellings of a dot in a dot segment: the character itself and its
\* percent-encoded form, in either letter case
DotForms == {<<".">>, <<"%", "2", "e">>, <<"%", "2", "E">>}

\* The single-dot segments: ".", "%2e", "%2E"
Dot == DotForms

\* The double-dot segments: "..", ".%2e", "%2e.", "%2e%2e" in any letter case
DotDot == {a \o b : a, b \in DotForms}

\* The URL path parser: a single-dot segment is dropped and a double-dot
\* segment removes the segment before it; either one, as the last segment,
\* leaves an empty last segment.  Empty segments are kept.  Every other
\* character that is left of an already parsed pathname is kept as it is.
RECURSIVE removeDotSegments(_, _, _)
removeDotSegments(segs, i, out) ==
    IF i > Len(segs) THEN out
    ELSE LET seg == segs[i]
             last == i = Len(segs)
             shorter == IF out = <<>> THEN out ELSE SubSeq(out, 1, Len(out) - 1)
         IN IF seg \in DotDot
            THEN removeDotSegments(segs, i + 1,
                     IF last THEN Append(shorter, <<>>) ELSE shorter)
            ELSE IF seg \in Dot
            THEN removeDotSegments(segs, i + 1,
                     IF last THEN Append(out, <<>>) ELSE out)
            ELSE removeDotSegments(segs, i + 1, Append(out, seg))

\* newUrl.pathname = path: the URL setter parses the path, which roots it
\* and removes its dot segments
setPathname(path) ==
    <<Slash>> \o join(removeDotSegments(
                         splitOn(stripLeadingSlash(path), 1, <<>>, <<>>), 1, <<>>))

Running(k, f) ==
    /\ k \in DOMAIN reqs
    /\ f \in DOMAIN reqs[k].frames
    /\ reqs[k].frames[f].st = "run"

Stmt(k, f) ==
    LET fr == reqs[k].frames[f] IN
    IF fr.pc <= Len(fr.fn.body) THEN fr.fn.body[fr.pc] ELSE "void"

(***************************************************************************)
(* Actions                                                                 *)
(***************************************************************************)
Call(op, router, method, path, fn, mws) ==
    [op |-> op, router |-> router, method |-> method, path |-> path,
     fn |-> fn, mws |-> mws]

\* router.use(middleware)
Use(r, mw) ==
    /\ middlewares' = [middlewares EXCEPT ![r] = Append(@, mw)]
    /\ calls' = Append(calls, Call("use", r, "", <<>>, mw, <<>>))
    /\ UNCHANGED <<trees, reqs, stores>>

\* router.get / post / ... (path, handler, middlewares)
Register(r, method, path, handler, mws) ==
    /\ trees' = [trees EXCEPT ![r] =
                    register(@, middlewares[r], method, path, handler, mws)]
    /\ calls' = Append(calls, Call("register", r, method, path, handler, mws))
    /\ UNCHANGED <<middlewares, reqs, stores>>

\* A mount registered in the tree of GET
RouteUnderGet(r, prefix, child) ==
    /\ trees' = [trees EXCEPT ![r] =
                    register(@, middlewares[r], "GET", mountPattern(prefix),
                             mountHandler(prefix, child), <<>>)]
    /\ calls' = Append(calls, Call("route", r, StarMethod, prefix,
                                   mountHandler(prefix, child), <<>>))
    /\ UNCHANGED <<middlewares, reqs, stores>>

\* router.route(prefix, child)
Route(r, prefix, child) ==
    /\ trees' = [trees EXCEPT ![r] =
                    register(@, middlewares[r], StarMethod, mountPattern(prefix),
                             mountHandler(prefix, child), <<>>)]
    /\ calls' = Append(calls, Call("route", r, StarMethod, prefix,
                                   mountHandler(prefix, child), <<>>))
    /\ UNCHANGED <<middlewares, reqs, stores>>

\* A handle that creates the nodes of the request's path as it walks
HandleVivifies(r, method, path) ==
    /\ stores' = Append(stores, {})
    /\ reqs' = Append(reqs, newRequest(trees[r], r, method, path, Env,
                                       Len(stores) + 1, 0, 0))
    /\ trees' = [trees EXCEPT ![r] =
                    Set(@, method,
                        registerWalk(IF method \in DOMAIN @ THEN @[method]
                                     ELSE [n \in {Root} |-> createNode],
                                     Root, splitPath(path), 1).tree)]
    /\ UNCHANGED <<middlewares, calls>>

\* router.handle(req, env, store), up to its first await
Handle(r, method, path) ==
    /\ stores' = Append(stores, {})
    /\ reqs' = Append(reqs, newRequest(trees[r], r, method, path, Env,
                                       Len(stores) + 1, 0, 0))
    /\ UNCHANGED <<trees, middlewares, calls>>

\* A middleware invokes its continuation: () => dispatch(i + 1); the
\* handler's continuation is () => Promise.resolve()
CallNext(k, f) ==
    /\ Running(k, f)
    /\ Stmt(k, f) = "call"
    /\ LET q == reqs[k]
           fr == q.frames[f]
           q1 == IF fr.handler
                 THEN [q EXCEPT !.frames = Append(@, settledFrame(fr.pos, "ok", Void))]
                 ELSE dispatch(q, fr.pos + 1)
       IN reqs' = [reqs EXCEPT ![k] =
                      [q1 EXCEPT !.frames[f].p = Len(q1.frames),
                                 !.frames[f].pc = fr.pc + 1]]
    /\ UNCHANGED <<trees, middlewares, calls, stores>>

\* v = await p: resumes once the awaited dispatch has settled; a rejection
\* is thrown in the awaiting function
Await(k, f) ==
    /\ Running(k, f)
    /\ Stmt(k, f) = "await"
    /\ LET fr == reqs[k].frames[f]
           d == reqs[k].frames[fr.p] IN
       /\ d.st # "run"
       /\ reqs' = [reqs EXCEPT ![k].frames[f] =
                      IF d.st = "ok"
                      THEN [fr EXCEPT !.v = d.val, !.pc = fr.pc + 1]
                      ELSE dispatchSettle(fr, "throw", d.val)]
    /\ UNCHANGED <<trees, middlewares, calls, stores>>

\* return v / return new Response(...) / return
Return(k, f) ==
    /\ Running(k, f)
    /\ Stmt(k, f) \in {"retv", "resp", "void"}
    /\ LET fr == reqs[k].frames[f]
           x == IF Stmt(k, f) = "retv" THEN fr.v
                ELSE IF Stmt(k, f) = "resp" THEN Response(200, fr.fn.name)
                ELSE Void
       IN reqs' = [reqs EXCEPT ![k].frames[f] = dispatchSettle(fr, "return", x)]
    /\ UNCHANGED <<trees, middlewares, calls, stores>>

\* throw new Error(...)
Throw(k, f) ==
    /\ Running(k, f)
    /\ Stmt(k, f) = "throw"
    /\ reqs' = [reqs EXCEPT ![k].frames[f] =
                   dispatchSettle(@, "throw", Error(@.fn.name))]
    /\ UNCHANGED <<trees, middlewares, calls, stores>>

\* ctx.store[name] = ...: the function writes a property of its own on the
\* store of its context
StoreSet(k, f) ==
    /\ Running(k, f)
    /\ Stmt(k, f) = "set"
    /\ stores' = [stores EXCEPT ![reqs[k].store] = @ \cup {reqs[k].frames[f].fn.name}]
    /\ reqs' = [reqs EXCEPT ![k].frames[f].pc = @ + 1]
    /\ UNCHANGED <<trees, middlewares, calls>>

\* ... = ctx.store[name]: the function reads the store of its context
StoreGet(k, f) ==
    /\ Running(k, f)
    /\ Stmt(k, f) = "get"
    /\ reqs' = [reqs EXCEPT ![k].frames[f].seen = stores[reqs[k].store],
                            ![k].frames[f].pc = @ + 1]
    /\ UNCHANGED <<trees, middlewares, calls, stores>>

\* A mount that hands the child a context that starts with the parent's params
DelegateInheritsParams(k, f) ==
    /\ Running(k, f)
    /\ Stmt(k, f) = "delegate"
    /\ LET q == reqs[k]
           fr == q.frames[f]
           path == setPathname(subPath(q.path, fr.fn.prefix))
           d == delegateStore(stores, q.store)
           sub == newRequest(trees[fr.fn.child], fr.fn.child, q.method, path,
                             q.env, d.id, k, f)
           inherited == [x \in (DOMAIN q.params) \cup (DOMAIN sub.params) |->
                            IF x \in DOMAIN sub.params THEN sub.params[x]
                            ELSE q.params[x]]
       IN /\ reqs' = Append([reqs EXCEPT ![k].frames[f].p = Len(reqs) + 1,
                                         ![k].frames[f].pc = fr.pc + 1],
                            [sub EXCEPT !.params = inherited])
          /\ stores' = d.stores
    /\ UNCHANGED <<trees, middlewares, calls>>

\* The mount handler calls router.handle on the child with the rewritten path
Delegate(k, f) ==
    /\ Running(k, f)
    /\ Stmt(k, f) = "delegate"
    /\ LET q == reqs[k]
           fr == q.frames[f]
           path == setPathname(subPath(q.path, fr.fn.prefix))
           d == delegateStore(stores, q.store)
           sub == newRequest(trees[fr.fn.child], fr.fn.child, q.method, path,
                             q.env, d.id, k, f)
       IN /\ reqs' = Append([reqs EXCEPT ![k].frames[f].p = Len(reqs) + 1,
                                         ![k].frames[f].pc = fr.pc + 1], sub)
          /\ stores' = d.stores
    /\ UNCHANGED <<trees, middlewares, calls>>

\* A mount handler that yields nothing when the child answers 404, leaving
\* the request to whatever comes after it
ReturnSubFallsThrough(k, f) ==
    /\ Running(k, f)
    /\ Stmt(k, f) = "retsub"
    /\ LET fr == reqs[k].frames[f]
           sub == reqs[fr.p] IN
       /\ sub.status # "run"
       /\ reqs' = [reqs EXCEPT ![k].frames[f] =
                      IF sub.response = NotFoundResponse
                      THEN dispatchSettle(fr, "return", Void)
                      ELSE dispatchSettle(fr, IF sub.status = "done" THEN "return"
                                              ELSE "throw", sub.response)]
    /\ UNCHANGED <<trees, middlewares, calls, stores>>

\* The mount handler returns the promise of the child's handle
ReturnSub(k, f) ==
    /\ Running(k, f)
    /\ Stmt(k, f) = "retsub"
    /\ LET fr == reqs[k].frames[f]
           sub == reqs[fr.p] IN
       /\ sub.status # "run"
       /\ reqs' = [reqs EXCEPT ![k].frames[f] =
                      dispatchSettle(fr, IF sub.status = "done" THEN "return" ELSE "throw",
                                     sub.response)]
    /\ UNCHANGED <<trees, middlewares, calls, stores>>

\* handle resumes from await dispatch(0) and settles
Finish(k) ==
    /\ k \in DOMAIN reqs
    /\ reqs[k].status = "run"
    /\ reqs[k].frames[1].st # "run"
    /\ reqs' = [reqs EXCEPT ![k] = handleResult(@)]
    /\ UNCHANGED <<trees, middlewares, calls, stores>>

(***************************************************************************)
(* Initial state, inputs and specifications                                *)
(***************************************************************************)
Routers == {"main", "sub", "inner"}

\* new Router(): no tree, no global middleware
Init ==
    /\ trees = [r \in Routers |-> EmptyMap]
    /\ middlewares = [r \in Routers |-> <<>>]
    /\ reqs = <<>>
    /\ calls = <<>>
    /\ stores = <<>>

\* The number of registration calls (use, get/post/..., route) of a run
MaxCalls == 3

\* The handler passed by the n-th registration call is a function of its own
HandlerNames == <<"h1", "h2", "h3", "h4", "h5", "h6", "h7", "h8">>

freshHandler(body) == Fn(HandlerNames[Len(calls) + 1], body)

\* Registration precedes serving: the trie is built, then requests are served
Building == reqs = <<>> /\ Len(calls) < MaxCalls

\* Patterns and request paths, written as their characters
pRoot == <<"/">>
pA == <<"/", "a">>
pAB == <<"/", "a", "/", "b">>
pX == <<"/", ":", "x">>
pYB == <<"/", ":", "y", "/", "b">>
pXY == <<"/", ":", "x", "/", ":", "y">>
pAStar == <<"/", "a", "/", "*">>
pAStarB == <<"/", "a", "/", "*", "/", "b">>
pStar == <<"/", "*">>
pB == <<"/", "b">>
pM == <<"/", "m">>
pMB == <<"/", "m", "/", "b">>
pZ == <<"/", "z">>
pZBreq == <<"/", "z", "/", "b">>
pAZC == <<"/", "a", "/", "z", "/", "c">>
pZC == <<"/", "z", "/", "c">>

\* The routes the matching specification registers on the main router
MatchRoutes ==
    {<<"GET", pRoot>>, <<"GET", pA>>, <<"GET", pAB>>, <<"GET", pX>>,
     <<"GET", pYB>>, <<"GET", pXY>>, <<"GET", pAStar>>, <<"GET", pStar>>,
     <<"GET", pAStarB>>,
     <<"POST", pA>>}

\* The requests the matching specification serves
MatchRequests ==
    {<<"GET", pRoot>>, <<"GET", pA>>, <<"GET", pAB>>, <<"GET", pZ>>,
     <<"GET", pZBreq>>, <<"GET", pZC>>, <<"GET", pAZC>>, <<"GET", pMB>>,
     <<"GET", pM>>,
     <<"POST", pA>>}

\* The dispatch frames of all requests
Frames == UNION {{<<k, f>> : f \in 1..Len(reqs[k].frames)} : k \in 1..Len(reqs)}

\* Registration of literal, parameter and wildcard patterns and of a mounted
\* router, then one request; every handler answers with a response.
NextMatch ==
    \/ Building /\ \E mp \in MatchRoutes :
           Register("main", mp[1], mp[2], freshHandler(<<"resp">>), <<>>)
    \/ Building /\ Register("sub", "GET", pB, freshHandler(<<"resp">>), <<>>)
    \/ Building /\ Route("main", pM, "sub")
    \/ reqs = <<>> /\ \E rq \in MatchRequests : Handle("main", rq[1], rq[2])
    \/ \E kf \in Frames : Return(kf[1], kf[2])
    \/ \E kf \in Frames : Delegate(kf[1], kf[2])
    \/ \E kf \in Frames : ReturnSub(kf[1], kf[2])
    \/ \E k \in 1..Len(reqs) : Finish(k)

SpecMatch == Init /\ [][NextMatch]_vars

\* Global middleware of the dispatch specification
gPass1 == Fn("g1", <<"call", "await", "retv">>)
gPass2 == Fn("g2", <<"call", "await", "retv">>)
gStop == Fn("gs", <<"resp">>)
gThrow == Fn("gt", <<"throw">>)
gTwice == Fn("gw", <<"call", "await", "call", "await", "retv">>)
gBoth == Fn("gb", <<"call", "call", "await", "retv">>)
gForget == Fn("gf", <<"call", "void">>)
gThrowAfter == Fn("ga", <<"call", "await", "throw">>)
gDrop == Fn("gd", <<"call", "await", "void">>)
gReplace == Fn("gr", <<"call", "await", "resp">>)
rPass == Fn("r1", <<"call", "await", "retv">>)
rThrow == Fn("rt", <<"throw">>)

DispatchGlobals ==
    {gPass1, gPass2, gStop, gThrow, gTwice, gBoth, gForget, gThrowAfter, gDrop,
     gReplace}

\* <<pattern, handler body, route middleware>>
DispatchRoutes ==
    {<<pA, <<"resp">>, <<>>>>, <<pA, <<"resp">>, <<rPass>>>>,
     <<pA, <<"resp">>, <<rThrow>>>>,
     <<pB, <<"void">>, <<>>>>, <<pB, <<"throw">>, <<>>>>}

DispatchRequests == {pA, pB}

\* use() and registrations on one router, then one request, for a registered
\* or an unregistered path or for a method without routes, whose chain runs
\* statement by statement.
NextDispatch ==
    \/ Building /\ \E mw \in DispatchGlobals : Use("main", mw)
    \/ Building /\ \E rt \in DispatchRoutes :
           Register("main", "GET", rt[1], freshHandler(rt[2]), rt[3])
    \/ reqs = <<>> /\ \E path \in DispatchRequests : Handle("main", "GET", path)
    \/ reqs = <<>> /\ Handle("main", "POST", pA)
    \/ \E kf \in Frames : CallNext(kf[1], kf[2])
    \/ \E kf \in Frames : Await(kf[1], kf[2])
    \/ \E kf \in Frames : Return(kf[1], kf[2])
    \/ \E kf \in Frames : Throw(kf[1], kf[2])
    \/ \E k \in 1..Len(reqs) : Finish(k)

SpecDispatch == Init /\ [][NextDispatch]_vars

\* The steps of serving: the event loop runs every function that can run
\* and resumes every await whose promise has settled
ServingStep ==
    \/ \E kf \in Frames : CallNext(kf[1], kf[2])
    \/ \E kf \in Frames : Await(kf[1], kf[2])
    \/ \E kf \in Frames : Return(kf[1], kf[2])
    \/ \E kf \in Frames : Throw(kf[1], kf[2])
    \/ \E k \in 1..Len(reqs) : Finish(k)

FairSpecDispatch == Init /\ [][NextDispatch]_vars /\ WF_vars(ServingStep)

\* The number of registration calls of a run of the mount specification
MaxMountCalls == 4

pN == <<"/", "n">>
pMNB == <<"/", "m", "/", "n", "/", "b">>

\* A global middleware that writes the store, returns its continuation and
\* reads the store once the continuation has settled
gStore == Fn("gk", <<"set", "call", "await", "get", "retv">>)

\* <<router, middleware>>
MountUses == {<<"main", gStore>>, <<"sub", gPass2>>}

\* <<router, prefix, child>>
MountMounts == {<<"main", pM, "sub">>, <<"sub", pN, "inner">>}

\* <<router, pattern, handler body, route middleware>>
MountRoutes ==
    {<<"sub", pB, <<"get", "set", "resp">>, <<rPass>>>>,
     <<"sub", pRoot, <<"resp">>, <<>>>>,
     <<"inner", pB, <<"resp">>, <<>>>>,
     <<"main", pMB, <<"resp">>, <<>>>>}

MountRequests ==
    {<<"GET", pMB>>, <<"GET", pMNB>>, <<"GET", pM>>, <<"POST", pMB>>}

BuildingMount == reqs = <<>> /\ Len(calls) < MaxMountCalls

\* The mount specification makes no registration call twice
notYetUsed(r, mw) ==
    \A i \in 1..Len(calls) :
        ~(calls[i].op = "use" /\ calls[i].router = r /\ calls[i].fn = mw)

notYetRegistered(r, method, path) ==
    \A i \in 1..Len(calls) :
        ~(calls[i].op # "use" /\ calls[i].router = r
          /\ calls[i].method = method /\ calls[i].path = path)

\* Three routers: main mounts sub, sub mounts inner; global middleware on
\* main and on sub, routes on all three, in any order; then one request to
\* main, whose chain and whose delegated requests run statement by statement.
NextMount ==
    \/ BuildingMount /\ \E u \in MountUses :
           notYetUsed(u[1], u[2]) /\ Use(u[1], u[2])
    \/ BuildingMount /\ \E rt \in MountRoutes :
           /\ notYetRegistered(rt[1], "GET", rt[2])
           /\ Register(rt[1], "GET", rt[2], freshHandler(rt[3]), rt[4])
    \/ BuildingMount /\ \E mt \in MountMounts :
           /\ notYetRegistered(mt[1], StarMethod, mt[2])
           /\ Route(mt[1], mt[2], mt[3])
    \/ reqs = <<>> /\ \E rq \in MountRequests : Handle("main", rq[1], rq[2])
    \/ \E kf \in Frames : CallNext(kf[1], kf[2])
    \/ \E kf \in Frames : Await(kf[1], kf[2])
    \/ \E kf \in Frames : Return(kf[1], kf[2])
    \/ \E kf \in Frames : StoreSet(kf[1], kf[2])
    \/ \E kf \in Frames : StoreGet(kf[1], kf[2])
    \/ \E kf \in Frames : Delegate(kf[1], kf[2])
    \/ \E kf \in Frames : ReturnSub(kf[1], kf[2])
    \/ \E k \in 1..Len(reqs) : Finish(k)

SpecMount == Init /\ [][NextMount]_vars

\* The number of handle calls a caller makes in the serving specification
MaxRequests == 2

ServeRequests == {pZ, pB, pMB}

\* The handle calls made by a caller, as opposed to a mount handler
TopLevel == {k \in 1..Len(reqs) : reqs[k].parent = 0}

\* A router with a global middleware, a parameter route with a middleware of
\* its own and a mounted router without routes, registered in any order, each
\* at most once;
\* then handle calls that are in flight together and interleave at every
\* statement of their chains.
NextServe ==
    \/ reqs = <<>> /\ notYetUsed("main", gPass1) /\ Use("main", gPass1)
    \/ /\ reqs = <<>> /\ notYetRegistered("main", "GET", pX)
       /\ Register("main", "GET", pX, freshHandler(<<"resp">>), <<rPass>>)
    \/ /\ reqs = <<>> /\ notYetRegistered("main", StarMethod, pM)
       /\ Route("main", pM, "sub")
    \/ /\ Cardinality(TopLevel) < MaxRequests
       /\ \E path \in ServeRequests : Handle("main", "GET", path)
    \/ \E kf \in Frames : CallNext(kf[1], kf[2])
    \/ \E kf \in Frames : Await(kf[1], kf[2])
    \/ \E kf \in Frames : Return(kf[1], kf[2])
    \/ \E kf \in Frames : Delegate(kf[1], kf[2])
    \/ \E kf \in Frames : ReturnSub(kf[1], kf[2])
    \/ \E k \in 1..Len(reqs) : Finish(k)

SpecServe == Init /\ [][NextServe]_vars

\* The number of registration calls of a run of the segmentation specification
MaxSlashCalls == 2

\* Patterns and request paths with separators left out, added or repeated
pABbare == <<"a", "/", "b", "/">>
pABtwice == <<"/", "a", "/", "/", "b">>
pXbare == <<":", "x", "/">>
pAStarSlash == <<"/", "a", "/", "*", "/">>
pABslashes == <<"/", "/", "a", "/", "b", "/">>
pZslashes == <<"/", "/", "z", "/">>
pAZCslashes == <<"/", "a", "/", "/", "z", "/", "/", "c", "/">>

SegmentRoutes == {pAB, pABbare, pABtwice, pX, pXbare, pAStarSlash}

SegmentRequests == {pAB, pABslashes, pABtwice, pZ, pZslashes, pAZC, pAZCslashes}

\* Patterns written with and without leading, trailing and repeated
\* separators are registered on one router; then requests whose paths differ
\* in their separators are served one after the other.
NextSegments ==
    \/ /\ reqs = <<>> /\ Len(calls) < MaxSlashCalls
       /\ \E path \in SegmentRoutes :
              Register("main", "GET", path, freshHandler(<<"resp">>), <<>>)
    \/ /\ Len(reqs) < MaxRequests
       /\ \A k \in 1..Len(reqs) : reqs[k].status # "run"
       /\ \E path \in SegmentRequests : Handle("main", "GET", path)
    \/ \E kf \in Frames : Return(kf[1], kf[2])
    \/ \E k \in 1..Len(reqs) : Finish(k)

SpecSegments == Init /\ [][NextSegments]_vars

\* The number of registration calls of a run of the live specification
MaxLiveCalls == 4

\* <<pattern, route middleware>>
LiveRoutes == {<<pA, <<>>>>, <<pA, <<rPass>>>>, <<pB, <<>>>>}

LiveGlobals == {gPass1, gPass2}

\* use() and registrations go on while a request is in flight: they are made
\* before the request, and between any two steps of its chain.
NextLive ==
    \/ Len(calls) < MaxLiveCalls /\ \E mw \in LiveGlobals : Use("main", mw)
    \/ /\ Len(calls) < MaxLiveCalls
       /\ \E rt \in LiveRoutes :
              Register("main", "GET", rt[1], freshHandler(<<"resp">>), rt[2])
    \/ reqs = <<>> /\ Handle("main", "GET", pA)
    \/ \E kf \in Frames : CallNext(kf[1], kf[2])
    \/ \E kf \in Frames : Await(kf[1], kf[2])
    \/ \E kf \in Frames : Return(kf[1], kf[2])
    \/ \E k \in 1..Len(reqs) : Finish(k)

SpecLive == Init /\ [][NextLive]_vars

\* <<router, prefix, child>>: a mount at /m and a mount at the root, whose
\* pattern /* also covers the paths under /m
OverlapMounts == {<<"main", pM, "sub">>, <<"main", pRoot, "inner">>}

pY == <<"/", ":", "y">>

\* <<router, pattern>>
OverlapRoutes == {<<"inner", pMB>>, <<"sub", pB>>, <<"sub", pY>>, <<"main", pX>>}

OverlapRequests == {pMB, pZ}

\* Two mounts on one router whose patterns overlap, a global middleware, a
\* parameter route on that router and literal and parameter routes on the
\* mounted routers, registered in any order, each at most once; then one
\* request.
NextOverlap ==
    \/ BuildingMount /\ notYetUsed("main", gPass1) /\ Use("main", gPass1)
    \/ BuildingMount /\ \E mt \in OverlapMounts :
           /\ notYetRegistered(mt[1], StarMethod, mt[2])
           /\ Route(mt[1], mt[2], mt[3])
    \/ BuildingMount /\ \E rt \in OverlapRoutes :
           /\ notYetRegistered(rt[1], "GET", rt[2])
           /\ Register(rt[1], "GET", rt[2], freshHandler(<<"resp">>), <<>>)
    \/ reqs = <<>> /\ \E path \in OverlapRequests : Handle("main", "GET", path)
    \/ \E kf \in Frames : CallNext(kf[1], kf[2])
    \/ \E kf \in Frames : Await(kf[1], kf[2])
    \/ \E kf \in Frames : Return(kf[1], kf[2])
    \/ \E kf \in Frames : Delegate(kf[1], kf[2])
    \/ \E kf \in Frames : ReturnSub(kf[1], kf[2])
    \/ \E k \in 1..Len(reqs) : Finish(k)

SpecOverlap == Init /\ [][NextOverlap]_vars

\* Patterns whose parameter is named __proto__
pProto == <<"/", ":">> \o ProtoKey
pProtoB == pProto \o <<"/", "b">>

ProtoRoutes == {pProto, pProtoB, pA}

ProtoRequests == {pZ, pZBreq, pA}

\* Routes whose parameter is named __proto__ and a literal route, then one
\* request.  No trie position is given two names.
NextProto ==
    \/ Building /\ \E path \in ProtoRoutes :
           Register("main", "GET", path, freshHandler(<<"resp">>), <<>>)
    \/ reqs = <<>> /\ \E path \in ProtoRequests : Handle("main", "GET", path)
    \/ \E kf \in Frames : Return(kf[1], kf[2])
    \/ \E k \in 1..Len(reqs) : Finish(k)

SpecProto == Init /\ [][NextProto]_vars

(***************************************************************************)
(* Vocabulary of the properties                                            *)
(***************************************************************************)
Requests == 1..Len(reqs)

Registrations == {i \in 1..Len(calls) : calls[i].op = "register"}

isParamSegment(seg) == startsWith(seg, <<":">>)

isLiteralSegment(seg) == seg # Star /\ ~isParamSegment(seg)

isLiteralPattern(path) ==
    LET segs == splitPath(path) IN
    \A j \in 1..Len(segs) : isLiteralSegment(segs[j])

\* The pattern's segments up to and including its first wildcard
patternSegments(path) ==
    LET segs == splitPath(path)
        stars == {j \in 1..Len(segs) : segs[j] = Star}
    IN IF stars = {} THEN segs
       ELSE SubSeq(segs, 1, CHOOSE j \in stars : \A j2 \in stars : j <= j2)

edgeOf(seg) ==
    IF seg = Star THEN WildEdge
    ELSE IF isParamSegment(seg) THEN ParamEdge
    ELSE LitEdge(seg)

\* The trie position a pattern denotes: one edge per segment
patternNode(path) ==
    LET ps == patternSegments(path) IN [j \in 1..Len(ps) |-> edgeOf(ps[j])]

\* Registration i and registration j bind the same trie node
sameBinding(i, j) ==
    /\ calls[i].router = calls[j].router
    /\ calls[i].method = calls[j].method
    /\ patternNode(calls[i].path) = patternNode(calls[j].path)

\* Registration i is the one whose route is bound at its node now
isBound(i) ==
    /\ i \in Registrations
    /\ \A j \in Registrations : (j > i) => ~sameBinding(i, j)

\* Request k was matched to the route that registration i bound
matchedBy(k, i) ==
    /\ i \in Registrations
    /\ reqs[k].router = calls[i].router
    /\ reqs[k].route.handler = calls[i].fn

\* C1: for every registered route whose pattern has only literal segments,
\* a request with exactly that method and path is matched to the handler
\* bound for that pattern, with an empty captured-parameter map.
C1_LiteralRouteMatches ==
    \A k \in Requests : \A i \in Registrations :
        ( /\ reqs[k].router = calls[i].router
          /\ reqs[k].method = calls[i].method
          /\ reqs[k].path = calls[i].path
          /\ isLiteralPattern(calls[i].path)
          /\ isBound(i) )
        => /\ reqs[k].route.handler = calls[i].fn
           /\ reqs[k].params = EmptyParams

\* A request answered by the handler of a literal route while a parameter
\* route and a wildcard route that could also take its path are registered
C1_Witness ==
    \E k \in Requests : \E i, j, l \in Registrations :
        /\ isLiteralPattern(calls[i].path)
        /\ reqs[k].path = calls[i].path
        /\ reqs[k].path = pA
        /\ calls[j].path = pX /\ calls[l].path = pStar
        /\ calls[j].method = reqs[k].method /\ calls[l].method = reqs[k].method
        /\ reqs[k].status = "done"
        /\ reqs[k].response = Response(200, calls[i].fn.name)
        /\ reqs[k].params = EmptyParams

\* The capture name declared by registration i at segment j of its pattern
declaredName(i, j) == Tail(patternSegments(calls[i].path)[j])

\* C2 (as claimed): a request matched to a route whose pattern has parameter
\* segments binds, for each of them, the text of the request's segment at the
\* same position under the name the pattern declares.
C2_BoundUnderDeclaredName ==
    \A k \in Requests : \A i \in Registrations :
        matchedBy(k, i) =>
            \A j \in 1..Len(patternSegments(calls[i].path)) :
                isParamSegment(patternSegments(calls[i].path)[j]) =>
                    /\ declaredName(i, j) \in DOMAIN reqs[k].params
                    /\ reqs[k].params[declaredName(i, j)] = splitPath(reqs[k].path)[j]

\* The registrations that pass through the same trie position as the first
\* j segments of registration i
throughSameNode(i, j) ==
    LET np == SubSeq(patternNode(calls[i].path), 1, j) IN
    {i2 \in Registrations :
        /\ calls[i2].router = calls[i].router
        /\ calls[i2].method = calls[i].method
        /\ LET np2 == patternNode(calls[i2].path) IN
           Len(np2) >= j /\ SubSeq(np2, 1, j) = np}

\* Registration i is a literal prefix followed by a wildcard
isPrefixWildcard(i) ==
    LET segs == splitPath(calls[i].path) IN
    /\ Len(segs) >= 2
    /\ segs[Len(segs)] = Star
    /\ \A j \in 1..(Len(segs) - 1) : isLiteralSegment(segs[j])

literalPrefix(i) == SubSeq(splitPath(calls[i].path), 1, Len(splitPath(calls[i].path)) - 1)

\* C3 (as claimed): every request whose segments start with the literal
\* prefix of a prefix-wildcard route, the request for the bare prefix
\* included, is matched to that route with "*" bound to the joined rest.
C3_WildcardTakesEveryRemainder ==
    \A k \in Requests : \A i \in Registrations :
        LET rs == splitPath(reqs[k].path) IN
        ( /\ isBound(i)
          /\ isPrefixWildcard(i)
          /\ reqs[k].router = calls[i].router
          /\ reqs[k].method = calls[i].method
          /\ Len(rs) >= Len(literalPrefix(i))
          /\ SubSeq(rs, 1, Len(literalPrefix(i))) = literalPrefix(i) )
        => /\ reqs[k].route.handler = calls[i].fn
           /\ reqs[k].params =
                  Put(EmptyParams, Star, join(sliceFrom(rs, Len(literalPrefix(i)))))

\* The walk along node path np consumed segs by the precedence rule: a static
\* edge equals its segment, a param edge is taken only where no static child
\* has the segment's key, a wildcard edge only where there is neither that
\* static child nor a param child.
respectsPrecedence(T, np, segs) ==
    /\ Len(np) <= Len(segs)
    /\ \A j \in 1..Len(np) :
           LET n == SubSeq(np, 1, j - 1) IN
           /\ np[j][1] = "static" => np[j] = LitEdge(segs[j])
           /\ np[j][1] = "param" => Append(n, LitEdge(segs[j])) \notin DOMAIN T
           /\ np[j][1] = "wildcard" =>
                  /\ j = Len(np)
                  /\ Append(n, LitEdge(segs[j])) \notin DOMAIN T
                  /\ Append(n, ParamEdge) \notin DOMAIN T
    /\ (Len(np) < Len(segs)) => (Len(np) > 0 /\ np[Len(np)] = WildEdge)

\* C4: the route a request is matched to is bound at a node reached from
\* the root by taking, at every node, the static child if the segment is one
\* of its keys, else the param child, else the wildcard child.
C4_Precedence ==
    \A k \in Requests :
        reqs[k].route # NoRoute =>
            \E m \in {reqs[k].method, StarMethod} \cap DOMAIN trees[reqs[k].router] :
                \E np \in DOMAIN trees[reqs[k].router][m] :
                    /\ trees[reqs[k].router][m][np].route = reqs[k].route
                    /\ respectsPrecedence(trees[reqs[k].router][m], np,
                                          splitPath(reqs[k].path))

\* The root has a static child, a param child and a wildcard child, and a
\* request for a segment that is no static key was bound by the param child
C4_Witness ==
    \E k \in Requests :
        /\ reqs[k].router = "main" /\ reqs[k].method = "GET"
        /\ "GET" \in DOMAIN trees["main"]
        /\ {<<LitEdge(<<"a">>)>>, <<ParamEdge>>, <<WildEdge>>}
               \subseteq DOMAIN trees["main"]["GET"]
        /\ reqs[k].path = pZ
        /\ reqs[k].route = trees["main"]["GET"][<<ParamEdge>>].route
        /\ reqs[k].route # NoRoute
        /\ reqs[k].status = "done"

\* C10: a request for which neither the tree of its method nor the
\* catch-all tree yields a route is answered with status 404.
C10_NotFound ==
    \A k \in Requests :
        LET TT == trees[reqs[k].router]
            segs == splitPath(reqs[k].path) IN
        ( /\ ~matchRoute(TT, reqs[k].method, segs).found
          /\ ~matchRoute(TT, StarMethod, segs).found )
        => /\ reqs[k].status = "done"
           /\ reqs[k].response.kind = "response"
           /\ reqs[k].response.status = 404

\* A 404 for a request that both an existing method tree and an existing
\* catch-all tree were walked for
C10_Witness ==
    \E k \in Requests :
        /\ reqs[k].router = "main"
        /\ {reqs[k].method, StarMethod} \subseteq DOMAIN trees["main"]
        /\ reqs[k].status = "done"
        /\ reqs[k].response.status = 404
        /\ reqs[k].frames = <<>>

(***************************************************************************)
(* Properties of the dispatcher                                            *)
(***************************************************************************)
Uses(r) == {u \in 1..Len(calls) : calls[u].op = "use" /\ calls[u].router = r}

\* The middleware passed to use() on the router of call i before call i
globalsBefore(i) ==
    LET earlier == SelectSeq(SubSeq(calls, 1, i - 1),
                       LAMBDA c : c.op = "use" /\ c.router = calls[i].router)
    IN [j \in 1..Len(earlier) |-> earlier[j].fn]

\* The chain of registration i as the registration calls describe it
expectedChain(i) == globalsBefore(i) \o calls[i].mws \o <<calls[i].fn>>

isStoreStmt(stmt) == stmt \in {"set", "get"}

\* return next(), whatever the function does with the store
passesOn(fn) ==
    SelectSeq(fn.body, LAMBDA stmt : ~isStoreStmt(stmt)) = <<"call", "await", "retv">>

allPassOn(route) ==
    \A j \in 1..Len(route.middlewares) : passesOn(route.middlewares[j])

Invoked(k) == {f \in 1..Len(reqs[k].frames) : reqs[k].frames[f].fn # NoFn}

logNames(k) == {reqs[k].log[e][2] : e \in 1..Len(reqs[k].log)}

\* C5: a request runs a global middleware M only if use(M) was called before
\* the registration of the route it matched; and a finished request whose
\* chain passes on throughout has run every M used before that registration.
C5_GlobalSnapshot ==
    \A k \in Requests : \A i \in Registrations :
        matchedBy(k, i) =>
            /\ \A u \in Uses(calls[i].router) :
                   calls[u].fn.name \in logNames(k) =>
                       \E u2 \in Uses(calls[i].router) :
                           u2 < i /\ calls[u2].fn = calls[u].fn
            /\ (reqs[k].status = "done" /\ allPassOn(reqs[k].route)) =>
                   \A u \in Uses(calls[i].router) :
                       u < i => calls[u].fn.name \in logNames(k)

\* Route A, then use(M), then route B: a finished request to A that did not
\* run M
C5_Witness ==
    \E k \in Requests : \E i, j \in Registrations : \E u \in Uses("main") :
        /\ i < u /\ u < j
        /\ matchedBy(k, i)
        /\ reqs[k].status = "done"
        /\ reqs[k].response = Response(200, calls[i].fn.name)
        /\ calls[u].fn.name \notin logNames(k)

\* C6: the steps of a request are invoked in the order of the chain: the
\* global middleware used before the registration, in use() order, then the
\* route's own middleware in the order given, then the handler; a step is
\* invoked only once the step before it has invoked its continuation; and
\* when every middleware passes on, the whole chain has run at the end.
C6_ExecutionOrder ==
    \A k \in Requests : \A i \in Registrations :
        matchedBy(k, i) =>
            /\ Len(reqs[k].log) <= Len(expectedChain(i))
            /\ \A e \in 1..Len(reqs[k].log) :
                   /\ reqs[k].log[e] = <<e - 1, expectedChain(i)[e].name>>
                   /\ e > 1 => \E f \in Invoked(k) :
                                   /\ reqs[k].frames[f].pos = e - 2
                                   /\ reqs[k].frames[f].p # 0
            /\ (reqs[k].status = "done" /\ allPassOn(reqs[k].route)) =>
                   Len(reqs[k].log) = Len(expectedChain(i))

\* use(g1), use(g2), get(path, handler, [r1]): the order is g1, g2, r1, handler
C6_Witness ==
    \E k \in Requests :
        /\ reqs[k].status = "done"
        /\ Len(reqs[k].log) = 4
        /\ reqs[k].log[1] = <<0, "g1">>
        /\ reqs[k].log[2] = <<1, "g2">>
        /\ reqs[k].log[3] = <<2, "r1">>
        /\ reqs[k].log[4] = <<3, reqs[k].route.handler.name>>

\* Frame f of request k is a middleware that returned a response of its own
\* without having invoked its continuation
shortCircuited(k, f) ==
    LET fr == reqs[k].frames[f] IN
    /\ f \in Invoked(k)
    /\ ~fr.handler
    /\ fr.st = "ok"
    /\ fr.p = 0
    /\ fr.pc <= Len(fr.fn.body)
    /\ fr.fn.body[fr.pc] = "resp"

\* C7: once a middleware has returned a response without invoking its
\* continuation, no step after it is ever invoked for that request, and
\* that response is what its dispatch step yields.
C7_ShortCircuit ==
    \A k \in Requests : \A f \in 1..Len(reqs[k].frames) :
        shortCircuited(k, f) =>
            /\ reqs[k].frames[f].val = Response(200, reqs[k].frames[f].fn.name)
            /\ \A f2 \in Invoked(k) : reqs[k].frames[f2].pos <= reqs[k].frames[f].pos
            /\ Len(reqs[k].log) = reqs[k].frames[f].pos + 1

\* A middleware after a passing one short-circuits: the handler never ran
\* and the request is answered with the middleware's response
C7_Witness ==
    \E k \in Requests : \E f \in 1..Len(reqs[k].frames) :
        /\ shortCircuited(k, f)
        /\ reqs[k].frames[f].pos = 1
        /\ Len(reqs[k].route.middlewares) = 2
        /\ reqs[k].status = "done"
        /\ reqs[k].response = Response(200, reqs[k].frames[f].fn.name)

\* A call of the continuation of request k was refused by the cursor guard
nextCalledTwice(k) ==
    \E f \in 1..Len(reqs[k].frames) :
        /\ reqs[k].frames[f].fn = NoFn
        /\ reqs[k].frames[f].st = "err"
        /\ reqs[k].frames[f].val = NextTwiceError

\* C8 (as claimed): when a middleware has invoked its continuation a second
\* time, what handle yields differs from the generic 500 response that a
\* throwing middleware produces.
C8_DoubleNextDistinguishable ==
    \A k \in Requests :
        (nextCalledTwice(k) /\ reqs[k].status # "run") =>
            ~(reqs[k].status = "done" /\ reqs[k].response = InternalErrorResponse)

\* C9: within one handle call every position of the chain is invoked at most
\* once, in increasing order, and the cursor is the highest position invoked.
C9_AtMostOnce ==
    \A k \in Requests :
        /\ \A f1, f2 \in Invoked(k) :
               reqs[k].frames[f1].pos = reqs[k].frames[f2].pos => f1 = f2
        /\ \A e \in 1..Len(reqs[k].log) : reqs[k].log[e][1] = e - 1
        /\ Cardinality(Invoked(k)) = Len(reqs[k].log)
        /\ reqs[k].index = Len(reqs[k].log) - 1
        /\ Len(reqs[k].log) <= Len(reqs[k].route.middlewares) + 1

\* A middleware called its continuation again after the handler had run:
\* the call was refused and the handler ran once
C9_Witness ==
    \E k \in Requests :
        /\ nextCalledTwice(k)
        /\ reqs[k].status = "done"
        /\ \E f \in Invoked(k) :
               reqs[k].frames[f].handler /\ reqs[k].frames[f].st = "ok"
        /\ Cardinality({f \in Invoked(k) : reqs[k].frames[f].handler}) = 1

(***************************************************************************)
(* Properties of error handling and of the default response                *)
(***************************************************************************)
\* Frame f of request k is a middleware that executed a throw statement
threw(k, f) ==
    LET fr == reqs[k].frames[f] IN
    /\ f \in Invoked(k)
    /\ ~fr.handler
    /\ fr.st # "run"
    /\ fr.pc <= Len(fr.fn.body)
    /\ fr.fn.body[fr.pc] = "throw"

\* Every middleware before the one of frame f returns what its continuation
\* produced
upstreamPassOn(k, f) ==
    \A j \in 1..reqs[k].frames[f].pos : passesOn(reqs[k].route.middlewares[j])

\* C11: when a middleware throws before invoking its continuation, its
\* dispatch step yields the 500 response with the fixed body, which holds
\* nothing of the error; the handler is never invoked; handle does not
\* reject, and with the middleware before it passing on, handle resolves
\* with that 500 response.
C11_ThrowBeforeNext ==
    \A k \in Requests : \A f \in 1..Len(reqs[k].frames) :
        (threw(k, f) /\ reqs[k].frames[f].p = 0) =>
            /\ reqs[k].frames[f].st = "ok"
            /\ reqs[k].frames[f].val = Response(500, "Internal Server Error")
            /\ reqs[k].frames[f].val.body # Error(reqs[k].frames[f].fn.name).body
            /\ \A f2 \in Invoked(k) : ~reqs[k].frames[f2].handler
            /\ reqs[k].status # "rejected"
            /\ (reqs[k].status = "done" /\ upstreamPassOn(k, f)) =>
                   reqs[k].response = Response(500, "Internal Server Error")

\* The second of two global middleware threw at once: the request is
\* answered 500 and the handler was not invoked
C11_Witness ==
    \E k \in Requests : \E f \in 1..Len(reqs[k].frames) :
        /\ threw(k, f)
        /\ reqs[k].frames[f].p = 0
        /\ reqs[k].frames[f].pos = 1
        /\ Len(reqs[k].route.middlewares) = 2
        /\ reqs[k].status = "done"
        /\ reqs[k].response.status = 500
        /\ Len(reqs[k].log) = 2

\* C12 (as claimed): whenever a middleware of the chain has thrown, before
\* or after invoking its continuation and whatever the middleware before it
\* do with the result of theirs, handle answers with the generic 500.
C12_AnyThrowYields500 ==
    \A k \in Requests :
        ( /\ reqs[k].status # "run"
          /\ \E f \in 1..Len(reqs[k].frames) : threw(k, f) )
        => /\ reqs[k].status = "done"
           /\ reqs[k].response = Response(500, "Internal Server Error")

\* C12 (amended): when a middleware has thrown, before or after invoking its
\* continuation, and every middleware before it returns what its awaited
\* continuation produced, handle answers with the generic 500.
C12_ThrowYields500WhenPassedOn ==
    \A k \in Requests : \A f \in 1..Len(reqs[k].frames) :
        (reqs[k].status # "run" /\ threw(k, f) /\ upstreamPassOn(k, f)) =>
            /\ reqs[k].status = "done"
            /\ reqs[k].response = Response(500, "Internal Server Error")

\* A middleware behind a passing one threw after its continuation, the
\* handler, had answered: the request is answered 500
C12_Witness ==
    \E k \in Requests : \E f \in 1..Len(reqs[k].frames) :
        /\ threw(k, f)
        /\ reqs[k].frames[f].pos = 1
        /\ reqs[k].frames[f].p # 0
        /\ reqs[k].frames[reqs[k].frames[f].p].handler
        /\ reqs[k].frames[reqs[k].frames[f].p].st = "ok"
        /\ reqs[k].status = "done"
        /\ reqs[k].response = InternalErrorResponse

\* The handler of request k threw
handlerThrew(k) ==
    \E f \in Invoked(k) :
        reqs[k].frames[f].handler /\ reqs[k].frames[f].st = "err"

\* C13 (as claimed): whatever the number of middleware in the chain, each of
\* them returning its continuation, an error thrown by the handler is not
\* turned into a 500 response: handle rejects with that error.
C13_HandlerErrorPropagates ==
    \A k \in Requests :
        (handlerThrew(k) /\ allPassOn(reqs[k].route) /\ reqs[k].status # "run") =>
            /\ reqs[k].status = "rejected"
            /\ reqs[k].response = Error(reqs[k].route.handler.name)

\* Frame f of request k is a middleware that invoked its continuation,
\* awaited it and returned no value
returnedNothingAfterNext(k, f) ==
    LET fr == reqs[k].frames[f] IN
    /\ f \in Invoked(k)
    /\ ~fr.handler
    /\ fr.fn.body = <<"call", "await", "void">>
    /\ fr.st = "ok"
    /\ fr.pc = 3

\* C17 (as claimed): when a middleware invokes its continuation, awaits it
\* and returns no value, its dispatch step yields what the continuation
\* produced, so that handle returns the response of the handler behind it.
C17_VoidPropagatesContinuation ==
    \A k \in Requests : \A f \in 1..Len(reqs[k].frames) :
        returnedNothingAfterNext(k, f) =>
            /\ reqs[k].frames[f].val = reqs[k].frames[reqs[k].frames[f].p].val
            /\ (reqs[k].status = "done" /\ upstreamPassOn(k, f)) =>
                   reqs[k].response = reqs[k].frames[reqs[k].frames[f].p].val

\* Request k matched a route and its chain ended without a response and
\* without an error
producedNothing(k) ==
    /\ reqs[k].route # NoRoute
    /\ reqs[k].status = "done"
    /\ reqs[k].frames[1].st = "ok"
    /\ reqs[k].frames[1].val = Void

\* C18 (as claimed): when a route matches and nothing produces a response,
\* handle resolves with status 200 and an empty body.
C18_DefaultEmptyBody ==
    \A k \in Requests :
        producedNothing(k) => reqs[k].response = Response(200, "")

\* C18 (amended): when a route matches and nothing produces a response,
\* handle resolves with status 200 and the body "OK"; a settled handle never
\* holds an absent value.
C18_DefaultOk ==
    \A k \in Requests :
        /\ producedNothing(k) => reqs[k].response = Response(200, "OK")
        /\ reqs[k].status = "done" => reqs[k].response.kind = "response"

\* A handler behind a passing middleware returned nothing and the request
\* was answered with the default response
C18_Witness ==
    \E k \in Requests :
        /\ producedNothing(k)
        /\ Len(reqs[k].log) = 2
        /\ reqs[k].frames[2].handler
        /\ reqs[k].frames[2].fn.body = <<"void">>
        /\ reqs[k].response = OkResponse

(***************************************************************************)
(* Properties of mounted routers                                           *)
(***************************************************************************)
\* The requests a mount handler delegated to a child router
Children == {c \in Requests : reqs[c].parent # 0}

Mounts == {i \in 1..Len(calls) : calls[i].op = "route"}

\* Mount i is the one whose handler is bound at the node of its pattern now
mountBound(i) ==
    /\ i \in Mounts
    /\ \A j \in Mounts :
           (j > i /\ calls[j].router = calls[i].router) =>
               patternNode(mountPattern(calls[j].path))
                   # patternNode(mountPattern(calls[i].path))

\* path is prefix followed by a remainder of one segment or more
hasRemainder(path, prefix) ==
    /\ startsWith(path, prefix)
    /\ Len(splitPath(slice(path, Len(prefix)))) >= 1
    /\ splitPath(path) = splitPath(prefix) \o splitPath(slice(path, Len(prefix)))

\* The mount frame of the parent that delegated request c
mountFrame(c) == reqs[reqs[c].parent].frames[reqs[c].pframe]

\* C14: a request to a router whose path is the prefix P of its mount
\* followed by a non-empty remainder R, and that no route of its own method
\* takes, is matched to the mount handler; the request the mount handler
\* delegates goes to the mounted child with the same method and with the
\* path R, is matched in the child's tries against R, runs the child's route
\* for a literal R, and its response is what the mount handler yields.  The
\* same holds for a delegated request at a mount of the child.
C14_MountDelegates ==
    /\ \A k \in Requests : \A i \in Mounts :
           ( /\ mountBound(i)
             /\ reqs[k].router = calls[i].router
             /\ hasRemainder(reqs[k].path, calls[i].path)
             /\ ~matchRoute(trees[reqs[k].router], reqs[k].method,
                            splitPath(reqs[k].path)).found )
           => /\ reqs[k].route.handler = calls[i].fn
              /\ reqs[k].route.handler.child = calls[i].fn.child
              /\ \A f \in 1..Len(reqs[k].frames) :
                     (reqs[k].frames[f].handler /\ reqs[k].frames[f].pc > 1) =>
                         /\ reqs[k].frames[f].p \in Children
                         /\ reqs[reqs[k].frames[f].p].parent = k
    /\ \A c \in Children :
           LET k == reqs[c].parent
               P == mountFrame(c).fn.prefix IN
           /\ reqs[c].router = mountFrame(c).fn.child
           /\ reqs[c].method = reqs[k].method
           /\ mountFrame(c).p = c
           /\ hasRemainder(reqs[k].path, P) =>
                  /\ P \o reqs[c].path = reqs[k].path
                  /\ reqs[c].route =
                         lookup(trees[reqs[c].router], reqs[c].method,
                                sliceFrom(splitPath(reqs[k].path),
                                          Len(splitPath(P)))).route
                  /\ \A i \in Registrations :
                         ( /\ isBound(i)
                           /\ isLiteralPattern(calls[i].path)
                           /\ calls[i].router = reqs[c].router
                           /\ calls[i].method = reqs[c].method
                           /\ P \o calls[i].path = reqs[k].path )
                         => reqs[c].route.handler = calls[i].fn
           /\ (mountFrame(c).st # "run" /\ reqs[c].status = "done") =>
                  (mountFrame(c).st = "ok" /\ mountFrame(c).val = reqs[c].response)

\* main mounts sub at /m, sub mounts inner at /n: the request /m/n/b was
\* delegated to sub as /n/b and by sub to inner as /b, ran inner's handler
\* for /b and was answered with its response
C14_Witness ==
    \E k \in Requests : \E c1, c2 \in Children : \E i \in Registrations :
        /\ reqs[k].parent = 0 /\ reqs[k].path = pMNB
        /\ reqs[c1].parent = k /\ reqs[c1].router = "sub" /\ reqs[c1].path = <<"/", "n", "/", "b">>
        /\ reqs[c2].parent = c1 /\ reqs[c2].router = "inner" /\ reqs[c2].path = pB
        /\ calls[i].router = "inner"
        /\ reqs[c2].route.handler = calls[i].fn
        /\ reqs[k].status = "done"
        /\ reqs[k].response = Response(200, calls[i].fn.name)

\* The statements frame f of request k has executed
executed(k, f) ==
    LET fr == reqs[k].frames[f] IN
    SubSeq(fr.fn.body, 1, IF fr.pc - 1 <= Len(fr.fn.body) THEN fr.pc - 1
                          ELSE Len(fr.fn.body))

has(stmts, stmt) == \E j \in 1..Len(stmts) : stmts[j] = stmt

\* Frame f wrote the store before it invoked its continuation
wroteBeforeNext(k, f) ==
    \E j \in 1..Len(executed(k, f)) :
        /\ executed(k, f)[j] = "set"
        /\ ~has(SubSeq(executed(k, f), 1, j), "call")

\* Frame f read the store after its continuation had settled
readAfterNext(k, f) ==
    \E j \in 1..Len(executed(k, f)) :
        /\ executed(k, f)[j] = "get"
        /\ has(SubSeq(executed(k, f), 1, j), "await")

\* C15: a delegated request holds the env and the very store object of the
\* request that was delegated: what a function of the parent's chain wrote
\* on the store before the delegation is found by the functions of the child
\* that read it, and what a function of the child wrote is found by a
\* middleware of the parent that reads the store after its continuation
\* has returned.
C15_SharedStore ==
    \A c \in Children :
        LET k == reqs[c].parent IN
        /\ reqs[c].env = reqs[k].env
        /\ reqs[c].store = reqs[k].store
        /\ \A fk \in Invoked(k) : \A fc \in Invoked(c) :
               /\ (wroteBeforeNext(k, fk) /\ has(executed(c, fc), "get")) =>
                      reqs[k].frames[fk].fn.name \in reqs[c].frames[fc].seen
               /\ (has(executed(c, fc), "set") /\ readAfterNext(k, fk)) =>
                      reqs[c].frames[fc].fn.name \in reqs[k].frames[fk].seen

\* The parent's middleware wrote, the child's handler read that and wrote,
\* and the parent's middleware read the child's write after next() returned
C15_Witness ==
    \E c \in Children : \E fk \in Invoked(reqs[c].parent) : \E fc \in Invoked(c) :
        /\ reqs[reqs[c].parent].parent = 0
        /\ wroteBeforeNext(reqs[c].parent, fk)
        /\ readAfterNext(reqs[c].parent, fk)
        /\ reqs[c].frames[fc].handler
        /\ reqs[c].frames[fc].seen = {reqs[reqs[c].parent].frames[fk].fn.name}
        /\ reqs[reqs[c].parent].frames[fk].seen =
               {reqs[reqs[c].parent].frames[fk].fn.name, reqs[c].frames[fc].fn.name}
        /\ reqs[reqs[c].parent].status = "done"

\* C16: the route of a request is the one the tree of its method yields
\* whenever that tree yields one; it comes from the catch-all tree only when
\* the tree of the method yields none.  A request with the method and path
\* of a literal route of the router runs that route and is not delegated,
\* even where a mount of the router covers the path.
C16_MethodTreeFirst ==
    \A k \in Requests :
        LET TT == trees[reqs[k].router]
            segs == splitPath(reqs[k].path)
            m == matchRoute(TT, reqs[k].method, segs)
            s == matchRoute(TT, StarMethod, segs) IN
        /\ m.found => (reqs[k].route = m.route /\ reqs[k].params = m.params)
        /\ ~m.found => (reqs[k].route = s.route /\ reqs[k].params = s.params)
        /\ reqs[k].route.handler.child # NoRouter => ~m.found
        /\ \A i \in Registrations :
               ( /\ isBound(i)
                 /\ isLiteralPattern(calls[i].path)
                 /\ calls[i].router = reqs[k].router
                 /\ calls[i].method = reqs[k].method
                 /\ calls[i].path = reqs[k].path )
               => /\ reqs[k].route.handler = calls[i].fn
                  /\ \A c \in Children : reqs[c].parent # k

\* main has the route GET /m/b and the mount of sub at /m, whose pattern
\* also takes /m/b: GET /m/b was answered by main's own handler, and
\* nothing was delegated
C16_Witness ==
    \E k \in Requests : \E i \in Registrations : \E j \in Mounts :
        /\ calls[i].router = "main" /\ calls[i].path = pMB
        /\ calls[j].router = "main" /\ calls[j].path = pM
        /\ matchRoute(trees["main"], StarMethod, splitPath(pMB)).found
        /\ reqs[k].router = "main" /\ reqs[k].method = "GET" /\ reqs[k].path = pMB
        /\ reqs[k].status = "done"
        /\ reqs[k].response = Response(200, calls[i].fn.name)
        /\ Children = {}

\* Request k was matched to the route that call i, a registration or a
\* mount, bound
routedBy(k, i) ==
    /\ i \in Registrations \cup Mounts
    /\ reqs[k].router = calls[i].router
    /\ reqs[k].route.handler = calls[i].fn

\* The log of request k follows the chain of call i, step by step
followsChain(k, i) ==
    /\ Len(reqs[k].log) <= Len(expectedChain(i))
    /\ \A e \in 1..Len(reqs[k].log) :
           reqs[k].log[e] = <<e - 1, expectedChain(i)[e].name>>

\* C19: for a delegated request, the parent ran exactly the global
\* middleware it had been given before the mount call, in order, and then
\* the mount handler, all of it before the child's request began; the child
\* runs the global middleware it had been given before the registration of
\* the route it matched, then that route's own middleware, then its handler.
\* A global middleware runs only for requests to the router it was given
\* to, so for none that was answered without being delegated to that router.
C19_MountOrder ==
    /\ \A c \in Children : \A i \in Mounts :
           routedBy(reqs[c].parent, i) =>
               /\ followsChain(reqs[c].parent, i)
               /\ Len(reqs[reqs[c].parent].log) = Len(globalsBefore(i)) + 1
               /\ Len(reqs[reqs[c].parent].route.middlewares) = Len(globalsBefore(i))
    /\ \A c \in Children : \A j \in Registrations \cup Mounts :
           routedBy(c, j) =>
               /\ followsChain(c, j)
               /\ (reqs[c].status = "done" /\ allPassOn(reqs[c].route)) =>
                      Len(reqs[c].log) = Len(expectedChain(j))
    /\ \A k \in Requests : \A u \in 1..Len(calls) :
           (calls[u].op = "use" /\ calls[u].fn.name \in logNames(k)) =>
               /\ reqs[k].router = calls[u].router
               /\ reqs[k].router # "main" => k \in Children

\* use on main, mount of sub, use on sub, a route of sub with a middleware
\* of its own: the parent ran its middleware and the mount handler, the child its global middleware, the route's
\* middleware and the handler
C19_Witness ==
    \E k \in Requests : \E c \in Children :
        /\ reqs[c].parent = k
        /\ reqs[k].status = "done"
        /\ reqs[k].log = <<<<0, "gk">>, <<1, "mount">>>>
        /\ Len(reqs[c].log) = 3
        /\ reqs[c].log[1] = <<0, "g2">>
        /\ reqs[c].log[2] = <<1, "r1">>
        /\ reqs[c].log[3] = <<2, reqs[c].route.handler.name>>
        /\ reqs[k].response = Response(200, reqs[c].route.handler.name)

\* C20 (as claimed): a request whose path is exactly the prefix of a mount
\* of its router, and that no route of its own method takes, is delegated to
\* the child with the path "/", where a route registered at "/" handles it.
C20_BarePrefixDelegatesRoot ==
    \A k \in Requests : \A i \in Mounts :
        ( /\ mountBound(i)
          /\ reqs[k].router = calls[i].router
          /\ reqs[k].path = calls[i].path
          /\ ~matchRoute(trees[reqs[k].router], reqs[k].method,
                         splitPath(reqs[k].path)).found
          /\ reqs[k].status # "run" )
        => \E c \in Children :
               /\ reqs[c].parent = k
               /\ reqs[c].router = calls[i].fn.child
               /\ reqs[c].path = <<Slash>>
               /\ \A j \in Registrations :
                      ( /\ isBound(j)
                        /\ calls[j].router = reqs[c].router
                        /\ calls[j].method = reqs[c].method
                        /\ calls[j].path = <<Slash>> )
                      => reqs[c].route.handler = calls[j].fn

(***************************************************************************)
(* Properties of the registered tries                                      *)
(***************************************************************************)
\* The positions of registration i that are parameter segments
paramPositions(i) ==
    LET ps == patternSegments(calls[i].path) IN
    {j \in 1..Len(ps) : isParamSegment(ps[j])}

\* The param child that segment j of registration i passes through
paramChildOf(i, j) ==
    trees[calls[i].router][calls[i].method][SubSeq(patternNode(calls[i].path), 1, j)]

lastThrough(i, j) ==
    LET through == throughSameNode(i, j) IN
    CHOOSE i2 \in through : \A i3 \in through : i2 >= i3

\* C21 (as claimed): the capture name of a param child is the name declared
\* by the most recent registration through it.
C21_LastNameWins ==
    \A i \in Registrations : \A j \in paramPositions(i) :
        paramChildOf(i, j).paramName = declaredName(lastThrough(i, j), j)

\* The trie node that a registration call or a mount call binds
callNode(c) ==
    patternNode(IF c.op = "route" THEN mountPattern(c.path) ELSE c.path)

\* A request to the method and literal pattern of the bound registration i
\* runs its handler behind the middleware snapshot of that registration, and
\* no handler bound there earlier is invoked
runsLatestBinding ==
    \A k \in Requests : \A i \in Registrations :
        ( /\ isBound(i)
          /\ isLiteralPattern(calls[i].path)
          /\ reqs[k].router = calls[i].router
          /\ reqs[k].method = calls[i].method
          /\ reqs[k].path = calls[i].path )
        => /\ reqs[k].route.handler = calls[i].fn
           /\ reqs[k].route.middlewares = globalsBefore(i) \o calls[i].mws
           /\ \A i0 \in Registrations :
                  (i0 < i /\ sameBinding(i0, i)) =>
                      calls[i0].fn.name \notin logNames(k)

\* A step changes the route of a node only if it is the call that binds
\* that node, and then to the route of that call
rebindsOnlyOwnNode ==
    \A r \in Routers : \A m \in DOMAIN trees[r] : \A np \in DOMAIN trees[r][m] :
        trees'[r][m][np].route # trees[r][m][np].route =>
            /\ Len(calls') = Len(calls) + 1
            /\ calls'[Len(calls')].router = r
            /\ calls'[Len(calls')].method = m
            /\ callNode(calls'[Len(calls')]) = np
            /\ trees'[r][m][np].route.handler = calls'[Len(calls')].fn

\* C22: registering the same method and pattern again replaces the route
\* bound at that node: requests run the second handler with the middleware
\* snapshot of the second registration, the first handler is not invoked
\* again, and the registration changes the route of no other node.
C22_Rebinding == []runsLatestBinding /\ [][rebindsOnlyOwnNode]_vars

\* get(/a, h1), use(g1), get(/a, h3): the request ran g1 and then h3
C22_Witness ==
    \E k \in Requests : \E i0, i \in Registrations : \E u \in Uses("main") :
        /\ i0 < u /\ u < i
        /\ sameBinding(i0, i)
        /\ reqs[k].path = calls[i].path
        /\ reqs[k].status = "done"
        /\ reqs[k].log = <<<<0, calls[u].fn.name>>, <<1, calls[i].fn.name>>>>
        /\ reqs[k].response = Response(200, calls[i].fn.name)

\* The literal segments of registration i before its first wildcard
beforeWildcard(i) ==
    SubSeq(patternSegments(calls[i].path), 1, Len(patternSegments(calls[i].path)) - 1)

\* Registration i is literal segments, then a wildcard, then anything
isLiteralThenWildcard(i) ==
    /\ \E j \in 1..Len(splitPath(calls[i].path)) : splitPath(calls[i].path)[j] = Star
    /\ \A j \in 1..Len(beforeWildcard(i)) : isLiteralSegment(beforeWildcard(i)[j])

literalNode(segs) == [j \in 1..Len(segs) |-> LitEdge(segs[j])]

\* C23: no trie node lies below a wildcard child; a pattern with segments
\* after its first wildcard binds its route at that wildcard child, the node
\* of the pattern cut after the wildcard; and a request whose segments are
\* the literal prefix P followed by a remainder that neither a static child
\* nor a param child of P's node takes is matched to that route with "*"
\* bound to the whole remainder, joined by "/".
C23_WildcardEndsPattern ==
    /\ \A r \in Routers : \A m \in DOMAIN trees[r] : \A np \in DOMAIN trees[r][m] :
           \A j \in 1..(Len(np) - 1) : np[j] # WildEdge
    /\ \A i \in Registrations :
           (isLiteralThenWildcard(i) /\ isBound(i)) =>
               LET T == trees[calls[i].router][calls[i].method]
                   P == beforeWildcard(i) IN
               /\ Append(literalNode(P), WildEdge) \in DOMAIN T
               /\ T[Append(literalNode(P), WildEdge)].route.handler = calls[i].fn
               /\ \A k \in Requests :
                      LET rs == splitPath(reqs[k].path) IN
                      ( /\ reqs[k].router = calls[i].router
                        /\ reqs[k].method = calls[i].method
                        /\ Len(rs) > Len(P)
                        /\ SubSeq(rs, 1, Len(P)) = P
                        /\ Append(literalNode(P), LitEdge(rs[Len(P) + 1])) \notin DOMAIN T
                        /\ Append(literalNode(P), ParamEdge) \notin DOMAIN T )
                      => /\ reqs[k].route.handler = calls[i].fn
                         /\ reqs[k].params =
                                Put(EmptyParams, Star, join(sliceFrom(rs, Len(P))))

\* /a/* and then /a/*/b were registered: the second took the node of the
\* first, and /a/z/c ran the second handler with "*" bound to z/c
C23_Witness ==
    \E k \in Requests : \E i0, i \in Registrations :
        /\ i0 < i
        /\ calls[i0].path = pAStar /\ calls[i].path = pAStarB
        /\ calls[i0].method = "GET" /\ calls[i].method = "GET"
        /\ reqs[k].method = "GET" /\ reqs[k].path = pAZC
        /\ reqs[k].status = "done"
        /\ reqs[k].response = Response(200, calls[i].fn.name)
        /\ reqs[k].params = Put(EmptyParams, Star, <<"z", "/", "c">>)

\* The trees of request k's router that its lookup may walk
walkedTrees(k) == {reqs[k].method, StarMethod} \cap DOMAIN trees[reqs[k].router]

\* Tree T has a route at the node that the walk for segs ends at
walkEndsOnRoute(T, segs) ==
    \E np \in DOMAIN T :
        respectsPrecedence(T, np, segs) /\ T[np].route # NoRoute

\* C24: a request is matched if and only if, in the tree of its method or
\* else in the catch-all tree, the node that the walk reaches after the last
\* segment, or on entering a wildcard child, has a route.  A request whose
\* segments spell the literal path to a node without a route is not matched
\* in that tree, and a request without segments is matched exactly when the
\* root of one of the two trees has a route.
C24_MatchIffRouteAtEnd ==
    \A k \in Requests :
        LET TT == trees[reqs[k].router]
            segs == splitPath(reqs[k].path) IN
        /\ reqs[k].route # NoRoute <=>
               \E m \in walkedTrees(k) : walkEndsOnRoute(TT[m], segs)
        /\ \A m \in walkedTrees(k) :
               ( /\ literalNode(segs) \in DOMAIN TT[m]
                 /\ TT[m][literalNode(segs)].route = NoRoute )
               => /\ ~matchRoute(TT, m, segs).found
                  /\ reqs[k].route # NoRoute =>
                         \E m2 \in walkedTrees(k) \ {m} :
                             walkEndsOnRoute(TT[m2], segs)
        /\ segs = <<>> =>
               (reqs[k].route # NoRoute <=>
                    \E m \in walkedTrees(k) : TT[m][Root].route # NoRoute)

\* /a/b is registered and the root has a route, yet GET /a, which ends on
\* the node a that holds no route, was answered 404
C24_Witness ==
    \E k \in Requests :
        /\ reqs[k].router = "main" /\ reqs[k].method = "GET" /\ reqs[k].path = pA
        /\ "GET" \in DOMAIN trees["main"]
        /\ <<LitEdge(<<"a">>), LitEdge(<<"b">>)>> \in DOMAIN trees["main"]["GET"]
        /\ trees["main"]["GET"][<<LitEdge(<<"a">>)>>].route = NoRoute
        /\ trees["main"]["GET"][Root].route # NoRoute
        /\ reqs[k].route = NoRoute
        /\ reqs[k].status = "done"
        /\ reqs[k].response.status = 404

\* Node path np spells segs, whatever the precedence of its edges
fits(np, segs) ==
    /\ Len(np) <= Len(segs)
    /\ \A j \in 1..Len(np) :
           /\ np[j][1] = "static" => np[j] = LitEdge(segs[j])
           /\ np[j][1] = "wildcard" => j = Len(np)
    /\ Len(np) < Len(segs) => (Len(np) > 0 /\ np[Len(np)] = WildEdge)

\* C25: a request is never matched to a route that lies behind a sibling of
\* lower precedence than the branch the walk took; when the branches taken
\* by precedence end on no route, in the tree of the method and in the
\* catch-all tree, the request is answered 404 even though such a sibling
\* leads to a route.
C25_NoBacktracking ==
    \A k \in Requests :
        LET TT == trees[reqs[k].router]
            segs == splitPath(reqs[k].path) IN
        /\ \A m \in walkedTrees(k) : \A np \in DOMAIN TT[m] :
               ( /\ fits(np, segs)
                 /\ TT[m][np].route # NoRoute
                 /\ ~respectsPrecedence(TT[m], np, segs) )
               => reqs[k].route # TT[m][np].route
        /\ (\A m \in walkedTrees(k) : ~walkEndsOnRoute(TT[m], segs)) =>
               /\ reqs[k].route = NoRoute
               /\ reqs[k].status = "done"
               /\ reqs[k].response.status = 404

\* /:x and /* are registered: GET /z/c took the param child for z, found no
\* child for c, and was answered 404 although /* takes z/c
C25_Witness ==
    \E k \in Requests :
        /\ reqs[k].router = "main" /\ reqs[k].method = "GET" /\ reqs[k].path = pZC
        /\ "GET" \in DOMAIN trees["main"]
        /\ {<<ParamEdge>>, <<WildEdge>>} \subseteq DOMAIN trees["main"]["GET"]
        /\ trees["main"]["GET"][<<WildEdge>>].route # NoRoute
        /\ fits(<<WildEdge>>, splitPath(reqs[k].path))
        /\ reqs[k].status = "done"
        /\ reqs[k].response.status = 404

\* Every node but the root hangs below a node of the tree by one edge: a
\* static edge keyed by a literal segment, the one param edge, or the one
\* wildcard edge; a node has a capture name exactly if it is a param child
wellFormedTries ==
    \A r \in Routers : \A m \in DOMAIN trees[r] :
        /\ Root \in DOMAIN trees[r][m]
        /\ \A np \in DOMAIN trees[r][m] :
               np # Root =>
                   LET e == np[Len(np)] IN
                   /\ SubSeq(np, 1, Len(np) - 1) \in DOMAIN trees[r][m]
                   /\ \/ e[1] = "static" /\ e[2] # <<>> /\ isLiteralSegment(e[2])
                      \/ e = ParamEdge
                      \/ e = WildEdge
                   /\ (e = ParamEdge) <=> (trees[r][m][np].paramName # NoName)

\* A step keeps every tree, every node, every capture name and every bound
\* route: a route may only be replaced by another route
onlyAdds ==
    \A r \in Routers : \A m \in DOMAIN trees[r] :
        /\ m \in DOMAIN trees'[r]
        /\ \A np \in DOMAIN trees[r][m] :
               /\ np \in DOMAIN trees'[r][m]
               /\ trees'[r][m][np].paramName = trees[r][m][np].paramName
               /\ trees[r][m][np].route # NoRoute =>
                      trees'[r][m][np].route # NoRoute

\* C26: after any sequence of registrations every tree is well formed, with
\* unique literal keys and at most one param child and one wildcard child
\* per node, which can coexist; a registration only adds nodes or binds a
\* route: it removes no node, no edge and no route binding.
C26_TrieShape == []wellFormedTries /\ [][onlyAdds]_vars

\* After three registrations the root has a static child, a param child and
\* a wildcard child, each with a route
C26_Witness ==
    /\ reqs = <<>>
    /\ "GET" \in DOMAIN trees["main"]
    /\ {<<LitEdge(<<"a">>)>>, <<ParamEdge>>, <<WildEdge>>}
           \subseteq DOMAIN trees["main"]["GET"]
    /\ trees["main"]["GET"][<<LitEdge(<<"a">>)>>].route # NoRoute
    /\ trees["main"]["GET"][<<ParamEdge>>].route # NoRoute
    /\ trees["main"]["GET"][<<WildEdge>>].route # NoRoute

(***************************************************************************)
(* Properties of serving: the registry, requests in flight together        *)
(***************************************************************************)
\* A step that is no registration call leaves the tries and the global
\* middleware lists as they are
servingKeepsRegistry ==
    Len(calls') = Len(calls) => (trees' = trees /\ middlewares' = middlewares)

\* What a request was matched to is what the tries yield for it now, and
\* two requests for the same router, method and path were matched alike
sameMatchAgain ==
    \A k \in Requests :
        /\ reqs[k].route =
               lookup(trees[reqs[k].router], reqs[k].method,
                      splitPath(reqs[k].path)).route
        /\ \A k2 \in Requests :
               ( /\ reqs[k2].router = reqs[k].router
                 /\ reqs[k2].method = reqs[k].method
                 /\ reqs[k2].path = reqs[k].path )
               => (reqs[k2].route = reqs[k].route /\ reqs[k2].params = reqs[k].params)

\* C27: no step of handle (the lookup, the 404 answer, the steps of the
\* chain, the delegation to a mounted router) changes a trie or a list of
\* global middleware, so a request is matched to the same route however many
\* handle calls were made before it.
C27_ServingKeepsRegistry == []sameMatchAgain /\ [][servingKeepsRegistry]_vars

\* Two handle calls for the same path, one after the other, both matched to
\* the same route and both answered by it
C27_Witness ==
    \E k, k2 \in TopLevel :
        /\ k < k2
        /\ reqs[k].path = reqs[k2].path
        /\ reqs[k].route # NoRoute
        /\ reqs[k2].route = reqs[k].route
        /\ reqs[k].status = "done" /\ reqs[k2].status = "done"
        /\ reqs[k2].response = reqs[k].response
        /\ reqs[k].response.status = 200

\* What handle yields for request k when it is served alone, behind
\* middleware that return their continuation: 404 without a route, the
\* answer of the delegated request behind a mount, else the handler's answer
outcomeAlone(k) ==
    IF reqs[k].route = NoRoute THEN NotFoundResponse
    ELSE IF reqs[k].route.handler.child # NoRouter
    THEN reqs[CHOOSE c \in Requests : reqs[c].parent = k].response
    ELSE Response(200, reqs[k].route.handler.name)

\* C28: of handle calls in flight together, each has its own cursor and its
\* own params: no continuation call is refused by the guard, no step of a
\* chain is skipped or repeated, the params are those of the request's own
\* walk, and the outcome is the one the request has when served alone.
C28_RequestsIsolated ==
    \A k \in Requests :
        /\ ~nextCalledTwice(k)
        /\ reqs[k].status # "rejected"
        /\ \A e \in 1..Len(reqs[k].log) : reqs[k].log[e][1] = e - 1
        /\ Cardinality(Invoked(k)) = Len(reqs[k].log)
        /\ reqs[k].index = Len(reqs[k].log) - 1
        /\ reqs[k].params =
               lookup(trees[reqs[k].router], reqs[k].method,
                      splitPath(reqs[k].path)).params
        /\ \A i \in Registrations \cup Mounts :
               routedBy(k, i) =>
                   /\ followsChain(k, i)
                   /\ reqs[k].status = "done" =>
                          Len(reqs[k].log) = Len(expectedChain(i))
        /\ reqs[k].status = "done" => reqs[k].response = outcomeAlone(k)

\* Two handle calls in flight together behind a global middleware: the
\* later call has reached its handler while the earlier one is still at the
\* route's middleware, each holding its own segment as param
C28_Witness ==
    \E k, k2 \in TopLevel :
        /\ k < k2
        /\ reqs[k].status = "run" /\ reqs[k2].status = "run"
        /\ Len(reqs[k].route.middlewares) = 2
        /\ Len(reqs[k].log) = 2 /\ reqs[k].index = 1
        /\ Len(reqs[k2].log) = 3 /\ reqs[k2].index = 2
        /\ reqs[k].params = Put(EmptyParams, <<"x">>, <<"z">>)
        /\ reqs[k2].params = Put(EmptyParams, <<"x">>, <<"b">>)

\* No request has invoked more steps than its chain has, nor a position of
\* its chain twice
stepsBounded ==
    \A k \in Requests :
        /\ Len(reqs[k].log) <= Len(reqs[k].route.middlewares) + 1
        /\ \A e1, e2 \in 1..Len(reqs[k].log) :
               reqs[k].log[e1][1] = reqs[k].log[e2][1] => e1 = e2

allSettled == \A k \in Requests : reqs[k].status \in {"done", "rejected"}

\* C29: every handle call eventually settles, with a response or with an
\* error, and on the way it invokes no more steps than the matched route has
\* middleware plus one, none of them twice.
C29_Terminates == []stepsBounded /\ ((reqs # <<>>) ~> allSettled)

\* A handle call behind three middleware, one of which called its
\* continuation a second time, has settled after four step invocations
C29_Witness ==
    \E k \in Requests :
        /\ reqs[k].status = "done"
        /\ Len(reqs[k].route.middlewares) = 3
        /\ Len(reqs[k].log) = 4
        /\ nextCalledTwice(k)

\* C30: the route of a mount is bound in the catch-all tree and in no other
\* tree; a request of any method under the prefix that the tree of its own
\* method does not take is matched to the mount handler; the delegated
\* request has the method of the original request, so that it is matched, if
\* at all, to a route of the child's tree of that method or of the child's
\* catch-all tree, and is answered 404 by the child otherwise.
C30_MountAnyMethod ==
    /\ \A i \in Mounts :
           /\ StarMethod \in DOMAIN trees[calls[i].router]
           /\ callNode(calls[i]) \in DOMAIN trees[calls[i].router][StarMethod]
           /\ mountBound(i) =>
                  trees[calls[i].router][StarMethod][callNode(calls[i])].route.handler
                      = calls[i].fn
           /\ \A m \in DOMAIN trees[calls[i].router] \ {StarMethod} :
                  \A np \in DOMAIN trees[calls[i].router][m] :
                      trees[calls[i].router][m][np].route.handler.child = NoRouter
    /\ \A k \in Requests : \A i \in Mounts :
           ( /\ mountBound(i)
             /\ reqs[k].router = calls[i].router
             /\ hasRemainder(reqs[k].path, calls[i].path)
             /\ \A m \in DOMAIN trees[reqs[k].router] :
                    m = reqs[k].method =>
                        ~walkEndsOnRoute(trees[reqs[k].router][m],
                                         splitPath(reqs[k].path)) )
           => reqs[k].route.handler = calls[i].fn
    /\ \A c \in Children :
           LET TT == trees[reqs[c].router] IN
           /\ reqs[c].method = reqs[reqs[c].parent].method
           /\ reqs[c].route # NoRoute =>
                  \E m \in {reqs[c].method, StarMethod} \cap DOMAIN TT :
                      \E np \in DOMAIN TT[m] : TT[m][np].route = reqs[c].route
           /\ ({reqs[c].method, StarMethod} \cap DOMAIN TT = {}) =>
                  (reqs[c].status = "done" /\ reqs[c].response.status = 404)

\* sub has GET /b and is mounted at /m: POST /m/b was delegated to sub as a
\* POST, which sub has no route for, and was answered 404
C30_Witness ==
    \E k \in Requests : \E c \in Children :
        /\ reqs[c].parent = k
        /\ reqs[k].method = "POST" /\ reqs[k].path = pMB
        /\ reqs[c].method = "POST" /\ reqs[c].path = pB
        /\ "GET" \in DOMAIN trees["sub"]
        /\ <<LitEdge(<<"b">>)>> \in DOMAIN trees["sub"]["GET"]
        /\ reqs[c].route = NoRoute
        /\ reqs[k].status = "done"
        /\ reqs[k].response.status = 404

(***************************************************************************)
(* Segmentation                                                            *)
(***************************************************************************)
\* The path without the separators that delimit nothing: a separator is kept
\* only between two segments
squeeze(path) ==
    LET keep(i) ==
            \/ path[i] # Slash
            \/ /\ i < Len(path)
               /\ path[i + 1] # Slash
               /\ \E j \in 1..(i - 1) : path[j] # Slash
        kept == SelectSeq([i \in 1..Len(path) |-> i], keep)
    IN [j \in 1..Len(kept) |-> path[kept[j]]]

\* The two paths differ only in leading, trailing or repeated separators
separatorsApart(p, q) == squeeze(p) = squeeze(q)

\* C31: two requests of a router whose paths differ only in leading,
\* trailing or repeated separators are matched to the same route with the
\* same captured parameters; and of two registrations whose patterns differ
\* only in such separators the later one binds the node of the earlier one,
\* whose handler is then bound nowhere.
C31_SegmentationDropsEmpty ==
    /\ \A k1, k2 \in Requests :
           ( /\ reqs[k1].router = reqs[k2].router
             /\ reqs[k1].method = reqs[k2].method
             /\ separatorsApart(reqs[k1].path, reqs[k2].path) )
           => /\ reqs[k1].route = reqs[k2].route
              /\ reqs[k1].params = reqs[k2].params
    /\ \A i, j \in Registrations :
           ( /\ i < j
             /\ calls[i].router = calls[j].router
             /\ calls[i].method = calls[j].method
             /\ separatorsApart(calls[i].path, calls[j].path) )
           => LET T == trees[calls[i].router][calls[i].method] IN
              /\ \A np \in DOMAIN T : T[np].route.handler # calls[i].fn
              /\ \E np \in DOMAIN T : \E j2 \in Registrations :
                     /\ j2 >= j
                     /\ T[np].route.handler = calls[j2].fn
                     /\ Len(np) = Len(splitPath(calls[i].path))

\* /a/b registered, then a/b/ registered; the requests /a/b and //a/b/ are
\* both answered by the handler of the second registration
C31_Witness ==
    \E k1, k2 \in Requests : \E i, j \in Registrations :
        /\ i < j
        /\ calls[i].path = pAB /\ calls[j].path = pABbare
        /\ reqs[k1].path = pAB /\ reqs[k2].path = pABslashes
        /\ reqs[k1].status = "done" /\ reqs[k2].status = "done"
        /\ reqs[k1].response = Response(200, calls[j].fn.name)
        /\ reqs[k2].response = Response(200, calls[j].fn.name)

(***************************************************************************)
(* Unrouted requests                                                       *)
(***************************************************************************)
\* Neither the tree of the request's method nor the catch-all tree of its
\* router yields a route for request k
unrouted(k) ==
    LET TT == trees[reqs[k].router]
        segs == splitPath(reqs[k].path) IN
    /\ ~matchRoute(TT, reqs[k].method, segs).found
    /\ ~matchRoute(TT, StarMethod, segs).found

\* C32: a request that matches no route in either tree is answered 404 with
\* no global middleware, route middleware or handler invoked, however many
\* use() calls were made: no dispatch call exists for it and its cursor was
\* never moved.
C32_UnroutedRunsNothing ==
    \A k \in Requests :
        unrouted(k) =>
            /\ reqs[k].status = "done"
            /\ reqs[k].response = NotFoundResponse
            /\ reqs[k].frames = <<>>
            /\ reqs[k].log = <<>>
            /\ reqs[k].index = -1
            /\ \A u \in Uses(reqs[k].router) : calls[u].fn.name \notin logNames(k)

\* Two use() calls, then a GET route: a POST request for the route's path is
\* answered 404 and nothing ran
C32_Witness ==
    \E k \in Requests : \E i \in Registrations :
        /\ Len(middlewares["main"]) = 2
        /\ Len(trees["main"]["GET"][patternNode(calls[i].path)].route.middlewares) >= 2
        /\ calls[i].path = reqs[k].path
        /\ reqs[k].method = "POST"
        /\ unrouted(k)
        /\ reqs[k].response = NotFoundResponse
        /\ reqs[k].log = <<>>

(***************************************************************************)
(* Containment of a middleware's throw                                     *)
(***************************************************************************)
\* Frame f of request k is a middleware that ended by throwing: it executed
\* a throw statement, or the promise it awaited was rejected
raised(k, f) ==
    LET fr == reqs[k].frames[f] IN
    /\ f \in Invoked(k)
    /\ ~fr.handler
    /\ fr.st # "run"
    /\ fr.pc <= Len(fr.fn.body)
    /\ \/ fr.fn.body[fr.pc] = "throw"
       \/ fr.fn.body[fr.pc] = "await" /\ reqs[k].frames[fr.p].st = "err"

\* The middleware of frame g has awaited, as its continuation, the dispatch
\* call of frame d
hasAwaited(k, g, d) ==
    LET fr == reqs[k].frames[g] IN
    /\ g \in Invoked(k)
    /\ ~fr.handler
    /\ fr.p = d
    /\ fr.pc > 2
    /\ SubSeq(fr.fn.body, 1, 2) = <<"call", "await">>

\* C33 (as claimed): when the middleware at position i has thrown, the
\* continuation awaited by every middleware at a position j < i has resolved
\* with the 500 response.
C33_EveryUpstreamSees500 ==
    \A k \in Requests : \A f \in 1..Len(reqs[k].frames) :
        raised(k, f) =>
            \A g, d \in Invoked(k) :
                ( /\ reqs[k].frames[g].pos < reqs[k].frames[f].pos
                  /\ reqs[k].frames[d].pos = reqs[k].frames[g].pos + 1
                  /\ hasAwaited(k, g, d) )
                => /\ reqs[k].frames[d].st = "ok"
                   /\ reqs[k].frames[d].val = InternalErrorResponse

\* C33 (amended): when the middleware at position i has thrown, dispatch(i)
\* has resolved with the 500 response; the middleware at position i - 1 that
\* awaited it received that response and went on; no continuation awaited by
\* a middleware at a position j < i was rejected, each resolved with what the
\* middleware after j returned; and neither a middleware before i nor the
\* caller of handle has received an error object.
C33_ThrowContained ==
    \A k \in Requests : \A f \in 1..Len(reqs[k].frames) :
        raised(k, f) =>
            /\ reqs[k].frames[f].st = "ok"
            /\ reqs[k].frames[f].val = InternalErrorResponse
            /\ \A g \in Invoked(k) :
                   hasAwaited(k, g, f) =>
                       /\ reqs[k].frames[g].pos = reqs[k].frames[f].pos - 1
                       /\ reqs[k].frames[g].v = InternalErrorResponse
            /\ \A g, d \in Invoked(k) :
                   ( /\ reqs[k].frames[g].pos < reqs[k].frames[f].pos
                     /\ reqs[k].frames[d].pos = reqs[k].frames[g].pos + 1 )
                   => /\ reqs[k].frames[d].st # "err"
                      /\ reqs[k].frames[g].st # "err"
                      /\ reqs[k].frames[g].v.kind # "error"
                      /\ hasAwaited(k, g, d) =>
                             reqs[k].frames[g].v = reqs[k].frames[d].val
            /\ reqs[k].status # "rejected"
            /\ reqs[k].response.kind # "error"

\* use(g1), use(gr), get(path, handler, [rt]): rt threw at position 2, gr at
\* position 1 received the 500 response and returned a response of its own,
\* which is what the continuation of g1 at position 0 resolved with
C33_Witness ==
    \E k \in Requests : \E f, g1, g0 \in 1..Len(reqs[k].frames) :
        /\ raised(k, f)
        /\ reqs[k].frames[f].pos = 2
        /\ reqs[k].frames[g1].pos = 1 /\ hasAwaited(k, g1, f)
        /\ reqs[k].frames[g1].v = InternalErrorResponse
        /\ reqs[k].frames[g0].pos = 0 /\ hasAwaited(k, g0, g1)
        /\ reqs[k].frames[g0].v = Response(200, reqs[k].frames[g1].fn.name)
        /\ reqs[k].status = "done"
        /\ reqs[k].response = Response(200, reqs[k].frames[g1].fn.name)

(***************************************************************************)
(* Registration while a request is in flight                               *)
(***************************************************************************)
\* A request matched to the route of registration i holds the handler and
\* the middleware list that registration i built, invokes them in that order
\* and, once done, has run them all and carries the response of that handler
keepsItsRoute ==
    \A k \in Requests : \A i \in Registrations :
        matchedBy(k, i) =>
            /\ reqs[k].route = [handler |-> calls[i].fn,
                                middlewares |-> globalsBefore(i) \o calls[i].mws]
            /\ Len(reqs[k].log) <= Len(expectedChain(i))
            /\ \A e \in 1..Len(reqs[k].log) :
                   reqs[k].log[e] = <<e - 1, expectedChain(i)[e].name>>
            /\ reqs[k].status = "done" =>
                   /\ Len(reqs[k].log) = Len(expectedChain(i))
                   /\ reqs[k].response = Response(200, calls[i].fn.name)

\* A use() or registration call leaves every request as it is
registryStepKeepsRequests == (calls' # calls) => (reqs' = reqs)

\* A step of a request's chain leaves its route and its params as they are
chainStepKeepsRoute ==
    \A k \in Requests :
        /\ k \in 1..Len(reqs')
        /\ reqs'[k].route = reqs[k].route
        /\ reqs'[k].params = reqs[k].params

\* C34: a request that has been matched is unaffected by the use() calls and
\* the registrations, of its own pattern or of another, that are made before
\* it resumes: it finishes with the handler and the middleware list, in
\* their order, of the route it matched.
C34_InFlightKeepsRoute ==
    []keepsItsRoute /\ [][registryStepKeepsRequests /\ chainStepKeepsRoute]_vars

\* A request matched to a route with one global middleware was answered by
\* that route's handler after that one middleware, although its pattern was
\* registered again and another use() call was made before it finished
C34_Witness ==
    \E k \in Requests : \E i, j \in Registrations : \E u \in Uses("main") :
        /\ matchedBy(k, i)
        /\ i < j /\ sameBinding(i, j)
        /\ j < u
        /\ Len(globalsBefore(i)) = 1
        /\ Len(reqs[k].log) = 2
        /\ reqs[k].status = "done"
        /\ reqs[k].response = Response(200, calls[i].fn.name)
        /\ lookup(trees["main"], "GET", splitPath(reqs[k].path)).route.handler = calls[j].fn

(***************************************************************************)
(* Finality of delegation                                                  *)
(***************************************************************************)
\* C35: a request whose lookup selected a mount route is delegated once, to
\* the router of that mount; what the child's handle yields is what the
\* dispatch step of the mount handler yields; and when the child has no
\* matching route, the child answers 404, no other handler or mounted router
\* is tried for the request, and the request, whose middleware pass on, is
\* answered with that 404.
C35_DelegationFinal ==
    \A c \in Children :
        LET k == reqs[c].parent
            fr == mountFrame(c) IN
        /\ fr.handler
        /\ fr.fn = reqs[k].route.handler
        /\ reqs[c].router = reqs[k].route.handler.child
        /\ \A c2 \in Children : reqs[c2].parent = k => c2 = c
        /\ \A f \in Invoked(k) : reqs[k].frames[f].handler => f = reqs[c].pframe
        /\ fr.st # "run" =>
               /\ reqs[c].status # "run"
               /\ fr.st = (IF reqs[c].status = "done" THEN "ok" ELSE "err")
               /\ fr.val = reqs[c].response
        /\ reqs[c].route = NoRoute =>
               /\ reqs[c].status = "done"
               /\ reqs[c].response = NotFoundResponse
               /\ (reqs[k].status # "run" /\ allPassOn(reqs[k].route)) =>
                      (reqs[k].status = "done" /\ reqs[k].response = NotFoundResponse)

\* main mounts sub at /m and inner at the root, inner has a route for /m/b
\* and sub has none for /b: the request /m/b went to sub alone and was
\* answered with sub's 404, behind main's global middleware
C35_Witness ==
    \E k \in Requests : \E c \in Children : \E i, j \in Mounts : \E r \in Registrations :
        /\ reqs[c].parent = k /\ reqs[k].parent = 0
        /\ reqs[k].path = pMB
        /\ calls[i].path = pM /\ calls[j].path = pRoot
        /\ calls[r].router = "inner" /\ calls[r].path = pMB
        /\ reqs[c].router = "sub"
        /\ reqs[c].route = NoRoute
        /\ Len(reqs[k].route.middlewares) = 1
        /\ Len(reqs) = 2
        /\ reqs[k].status = "done"
        /\ reqs[k].response = NotFoundResponse

(***************************************************************************)
(* Params of a chain                                                       *)
(***************************************************************************)
\* The positions of node path np that are a param or a wildcard edge
capturing(np) == {j \in 1..Len(np) : np[j] \in {ParamEdge, WildEdge}}

\* The key under which the edge at position j of np captures
keyAt(T, np, j) ==
    IF np[j] = WildEdge THEN Star ELSE T[SubSeq(np, 1, j)].paramName

\* What the params object of a walk of segs along node path np of trie T
\* holds: for each param edge its segment, for the wildcard edge the joined
\* rest, a later capture replacing an earlier one of the same key; the key
\* that is no data property of a plain object holds nothing
capturesAlong(T, np, segs) ==
    LET js == capturing(np)
        keys == {keyAt(T, np, j) : j \in js} \ {ProtoKey}
    IN [x \in keys |->
           LET last == CHOOSE j \in js :
                           /\ keyAt(T, np, j) = x
                           /\ \A j2 \in js : keyAt(T, np, j2) = x => j2 <= j
           IN IF np[last] = WildEdge THEN join(sliceFrom(segs, last - 1))
              ELSE segs[last]]

\* C36: the params of a request, of a caller or of a mount handler, are
\* exactly what the walk along the node path of the route it was matched to
\* holds, in the tree that route is bound in, for the request's own
\* segments; a request matched to no route has empty params.  So nothing captured by a
\* walk that failed, and nothing captured by the parent of a delegated
\* request, its "*" included, is among them.
C36_ParamsOfTheWalk ==
    \A k \in Requests :
        LET TT == trees[reqs[k].router]
            segs == splitPath(reqs[k].path) IN
        /\ reqs[k].route = NoRoute => reqs[k].params = EmptyParams
        /\ reqs[k].route # NoRoute =>
               \E m \in walkedTrees(k) : \E np \in DOMAIN TT[m] :
                   /\ TT[m][np].route = reqs[k].route
                   /\ Len(np) <= Len(segs)
                   /\ reqs[k].params = capturesAlong(TT[m], np, segs)
        /\ reqs[k].parent # 0 =>
               \A x \in DOMAIN reqs[k].params :
                   \E j \in 1..Len(segs) :
                       reqs[k].params[x] = join(sliceFrom(segs, j - 1))
                       \/ reqs[k].params[x] = segs[j]

\* main has GET /:x and mounts sub at /m, sub has GET /:y: the GET walk of
\* /m/b captured x and failed, the chain of main saw only "*" = b, and the
\* chain of sub saw only y = b
C36_Witness ==
    \E k \in Requests : \E c \in Children :
        /\ reqs[c].parent = k /\ reqs[k].parent = 0
        /\ reqs[k].path = pMB
        /\ "GET" \in DOMAIN trees["main"]
        /\ <<ParamEdge>> \in DOMAIN trees["main"]["GET"]
        /\ trees["main"]["GET"][<<ParamEdge>>].paramName = <<"x">>
        /\ reqs[k].params = Put(EmptyParams, Star, <<"b">>)
        /\ reqs[c].router = "sub"
        /\ reqs[c].params = Put(EmptyParams, <<"y">>, <<"b">>)
        /\ reqs[c].status = "done"
        /\ reqs[k].status = "done"
        /\ reqs[k].response = Response(200, reqs[c].route.handler.name)

====
